---- MODULE Spec2Model ----
(***************************************************************************)
(* Model of the bibliography synchronisation engine of the Obsidian Zotero *)
(* integration plugin: the .bib file watcher and its debouncer, the        *)
(* new-citation import passes (detectAndImportNewCitations and             *)
(* importBbtCollection), saveSettings, the startup import, the annotation  *)
(* monitor (checkForAnnotationChanges, its batches, its interval timer),   *)
(* onunload, and the pure functions of bibSync (parseBibToMetadataMap,     *)
(* diffMetadata, patchFrontmatterContent) and of the annotation cache      *)
(* (createCacheEntry, detectChanges).                                      *)
(*                                                                         *)
(* JavaScript runs one task at a time: every action below is the code that *)
(* runs between two suspension points (await, timer, file event).          *)
(***************************************************************************)
EXTENDS Integers, Sequences, FiniteSets, TLC

\* ------------------------------------------------------------------ bounds

\* Import passes started in one behaviour (watcher-triggered or manual).
MaxPasses == 2
\* Settings saves started from the settings tab in one behaviour.
MaxUserSaves == 1
\* Timers of one kind (re-attach, superseded debounce) pending at a time.
MaxTimers == 1
\* External rewrites of the bibliography file in one behaviour.
MaxEdits == 1
\* Annotation check passes called for in one behaviour.
MaxChecks == 2
\* The most keys importedItems holds when the annotation monitor starts.
MaxImported == 3
\* The largest maxItemsPerBatch configured.
MaxBatch == 2
\* The time after load the startup clock runs to, and its step, in ms.
MaxStartupClock == 7500
StartupClockStep == 2500

\* --------------------------------------------------------------- constants

\* debounce(..., this.settings.bibWatchDebounce || 500)
DefaultDebounce == 500
\* setTimeout(() => this.initializeBibFileWatcher(), 1000)
ReattachDelay == 1000
\* annotationMonitoring: { ..., maxItemsPerBatch: 20, ... } of DEFAULT_SETTINGS
DefaultMaxItemsPerBatch == 20
\* setTimeout(async () => { ... }, 5000) of the startup import
AutorunDelay == 5000

\* Citation keys in ascending lexical order (Array.prototype.sort order).
KeyOrder == <<"a", "b">>
CiteKeys == {KeyOrder[i] : i \in 1..Len(KeyOrder)}

\* The document an import of a key produces (exportToMarkdown's first path).
PathOf == [a |-> "/notes/a.md", b |-> "/notes/b.md"]

\* Values of the one bibliography field the model tracks (title).
FieldValues == {"Old", "New"}

\* The configured bibliography path, and the name path.basename gives
\* for it.
BibPath == "/vault/refs.bib"
BibBase == "refs.bib"

\* JavaScript's undefined, and the empty string.
Undefined == "undefined"
EmptyStr == ""

\* this.bibFileWatcher === undefined
NoWatcher == [attached |-> FALSE, errored |-> FALSE, directory |-> FALSE]

\* ----------------------------------------------------------------- helpers

\* obj[k] of a JavaScript object used as a map
Lookup(obj, k) == IF k \in DOMAIN obj THEN obj[k] ELSE Undefined

\* JavaScript truthiness of a map value: undefined and '' are falsy
Truthy(v) == v # Undefined /\ v # EmptyStr

\* obj[k] = v
Assign(obj, k, v) == [x \in (DOMAIN obj) \cup {k} |-> IF x = k THEN v ELSE obj[x]]

\* Array.from(set).sort(): the members of S in ascending lexical order
RECURSIVE SortedFrom(_, _)
SortedFrom(S, i) ==
  IF i > Len(KeyOrder) THEN <<>>
  ELSE (IF KeyOrder[i] \in S THEN <<KeyOrder[i]>> ELSE <<>>) \o SortedFrom(S, i + 1)

Sorted(S) == SortedFrom(S, 1)

\* array.filter(pred) for a predicate given as the set of members it keeps
RECURSIVE Filter(_, _)
Filter(seq, keep) ==
  IF seq = <<>> THEN <<>>
  ELSE (IF Head(seq) \in keep THEN <<Head(seq)>> ELSE <<>>) \o Filter(Tail(seq), keep)

Range(seq) == {seq[i] : i \in 1..Len(seq)}

\* Object.keys(obj): the keys of obj, each once.
RECURSIVE ObjectKeysOf(_)
ObjectKeysOf(S) ==
  IF S = {} THEN <<>>
  ELSE LET k == CHOOSE x \in S : TRUE IN <<k>> \o ObjectKeysOf(S \ {k})

ObjectKeys(obj) == ObjectKeysOf(DOMAIN obj)

\* ------------------------------------------------------------------- state

VARIABLES
  settings,                   \* this.settings (the fields the engine reads)
  bibFile,                    \* the bibliography file: citation key -> title
  bibFileWatcher,             \* this.bibFileWatcher
  observers,                  \* observers fs.watch returned and nobody closed
  uncaught,                   \* initializeBibFileWatcher() has thrown
  isUpdatingFromFileWatcher,  \* this.isUpdatingFromFileWatcher
  handlerPending,             \* the current debounced handler has a timer set
  orphanTimers,               \* timers still set in handlers of closed observers
  reattachTimers,             \* pending setTimeout(initializeBibFileWatcher)
  passes,                     \* the import passes started so far
  userSaves,                  \* saveSettings calls made by the settings tab
  importLog,                  \* every call of the external import so far
  edits,                      \* rewrites of the bibliography file so far
  autorun,                    \* the startup import that onload() schedules
  delivered,                  \* the last event a directory observer delivered
  unloaded,                   \* onunload() has run
  \* the annotation monitor
  isMonitoringAnnotations,    \* this.isMonitoringAnnotations
  annotationCache,            \* this.settings.annotationCache
  lastAnnotationCheck,        \* this.settings.lastAnnotationCheck
  annotationMonitorInterval,  \* this.annotationMonitorInterval is set
  intervalTimers,             \* interval timers set and not cleared
  checks,                     \* the calls for an annotation check so far
  \* the debouncer on a clock
  clock,                      \* the time, in milliseconds
  debounceDue,                \* when the debouncer's timer fires, or NoTimer
  lastEvent,                  \* when the last file event arrived, or NoTimer
  burstStarts,                \* passes triggered in the current burst of events
  lastTrigger,                \* the last firing of the debounced callback
  \* the pure functions of bibSync, applied to one input
  call                        \* the function applied, its input and its result

monitorVars == <<isMonitoringAnnotations, annotationCache, lastAnnotationCheck,
                 annotationMonitorInterval, intervalTimers, checks>>

engineVars == <<settings, bibFile, bibFileWatcher, observers, uncaught,
                isUpdatingFromFileWatcher,
                handlerPending, orphanTimers, reattachTimers, passes, userSaves,
                importLog, edits, autorun, delivered, unloaded, monitorVars>>

debounceVars == <<clock, debounceDue, lastEvent, burstStarts, lastTrigger>>

vars == <<engineVars, debounceVars, call>>

\* No timer set, no event seen.
NoTimer == -1

\* No event delivered yet.
NoEvent == [eventType |-> "none", filename |-> Undefined]

\* No function of bibSync is being applied.
NoCall == [fn |-> "none"]

\* What an action of the engine leaves alone.
EngineStep == UNCHANGED <<debounceVars, call, autorun, delivered, unloaded, monitorVars>>

\* ------------------------------------------------------------ file watcher

\* Values the settings tab can give to bibWatchDebounce (milliseconds).
DelayChoices == {250, 500}

\* this.settings.bibWatchDebounce || 500: undefined (the setting is absent)
\* and 0 are falsy.
EffectiveDelay(s) ==
  IF "bibWatchDebounce" \notin DOMAIN s THEN DefaultDebounce
  ELSE IF s.bibWatchDebounce = 0 THEN DefaultDebounce ELSE s.bibWatchDebounce

\* The observer fs.watch returns, with the configuration it was created under.
Observer(s) ==
  [attached |-> TRUE, path |-> s.betterBibFilePath, delay |-> EffectiveDelay(s),
   errored |-> FALSE, directory |-> FALSE]

\* An initialisation that drops the observer held without closing it.
Closed_LeftOpen(n, watcher) == n

\* if (this.bibFileWatcher) { this.bibFileWatcher.close(); ... }: the number
\* of open observers once the one held, if any, is closed.
Closed(n, watcher) == IF watcher.attached THEN n - 1 ELSE n

\* An initialisation that goes on to fs.watch with auto-sync off.
WantsWatcher_PathOnly(s) == s.betterBibFilePath # EmptyStr

\* Auto-sync is on and the path is set: initializeBibFileWatcher() goes on
\* to fs.watch.
WantsWatcher(s) == s.autoSyncBibFile /\ s.betterBibFilePath # EmptyStr

\* initializeBibFileWatcher(): closes the observer held, then attaches a new
\* one with a new debounced handler unless auto-sync is off or the path is
\* unset. Closing an observer does not cancel a timer its handler has set.
\* fs.watch attaches on the file ("file"), or throws for it and attaches on
\* its directory ("directory"), or throws for both ("throws"); then the
\* exception leaves initializeBibFileWatcher().
InitializeOn(s, target) ==
  /\ bibFileWatcher' = IF WantsWatcher(s) /\ target # "throws"
                        THEN [Observer(s) EXCEPT !.directory = (target = "directory")]
                        ELSE NoWatcher
  /\ observers' = Closed(observers, bibFileWatcher)
                    + (IF WantsWatcher(s) /\ target # "throws" THEN 1 ELSE 0)
  /\ uncaught' = (uncaught \/ (WantsWatcher(s) /\ target = "throws"))
  /\ handlerPending' = FALSE
  /\ orphanTimers' = orphanTimers + (IF handlerPending THEN 1 ELSE 0)

\* The same, for fs.watch attaching on the file or throwing for both.
InitializeWith(s, attaches) == InitializeOn(s, IF attaches THEN "file" ELSE "throws")

\* An initialisation that closes the observer held and attaches none.
InitializeBibFileWatcher_OnlyCloses(s) ==
  /\ bibFileWatcher' = NoWatcher
  /\ observers' = Closed(observers, bibFileWatcher)
  /\ UNCHANGED uncaught
  /\ handlerPending' = FALSE
  /\ orphanTimers' = orphanTimers + (IF handlerPending THEN 1 ELSE 0)

\* initializeBibFileWatcher() when fs.watch attaches.
InitializeBibFileWatcher(s) == InitializeWith(s, TRUE)

WatcherUntouched ==
  UNCHANGED <<bibFileWatcher, observers, uncaught, handlerPending, orphanTimers>>

\* The callback of an observer of the file: a 'change' or 'rename' event
\* calls the debounced handler; a 'rename' also schedules a re-attach.
WatchEvent(eventType) ==
  /\ bibFileWatcher.attached
  /\ ~bibFileWatcher.directory
  /\ orphanTimers < MaxTimers
  /\ eventType = "rename" => reattachTimers < MaxTimers
  /\ handlerPending' = TRUE
  /\ reattachTimers' = reattachTimers + (IF eventType = "rename" THEN 1 ELSE 0)
  /\ UNCHANGED <<settings, bibFile, bibFileWatcher, observers, uncaught,
                 isUpdatingFromFileWatcher, orphanTimers, passes, userSaves,
                 importLog, edits>>
  /\ EngineStep

\* The event types fs.watch delivers.
EventTypes == {"change", "rename"}

\* The names fs.watch delivers to an observer of the directory: of the
\* bibliography file, of another file, and none (filename is null).
OtherFile == "notes.md"
Filenames == {BibBase, OtherFile, Undefined}

\* path.basename(bibPath)
Basename(bibPath) == IF bibPath = BibPath THEN BibBase ELSE bibPath

\* A callback that does not look at the filename.
FilenameMatches_AnyFile(filename, base) == TRUE

\* filename === base
FilenameMatches(filename, base) == filename = base

\* The callback of an observer of the directory: events of other files are
\* dropped; a 'change' or 'rename' event of the bibliography file calls the
\* debounced handler, and a 'rename' also schedules a re-attach.
DirectoryWatchEvent(eventType, filename) ==
  LET matches == /\ FilenameMatches(filename, Basename(bibFileWatcher.path))
                 /\ eventType \in {"change", "rename"}
  IN
  /\ bibFileWatcher.attached
  /\ bibFileWatcher.directory
  /\ orphanTimers < MaxTimers
  /\ eventType = "rename" => reattachTimers < MaxTimers
  /\ handlerPending' = (handlerPending \/ matches)
  /\ reattachTimers' = reattachTimers
                         + (IF matches /\ eventType = "rename" THEN 1 ELSE 0)
  /\ delivered' = [eventType |-> eventType, filename |-> filename]
  /\ UNCHANGED <<settings, bibFile, bibFileWatcher, observers, uncaught,
                 isUpdatingFromFileWatcher, orphanTimers, passes, userSaves,
                 importLog, edits>>
  /\ UNCHANGED <<debounceVars, call, autorun, unloaded, monitorVars>>

\* The re-attach timer of a 'rename' event fires; fs.watch throws for the
\* file (it is gone) and attaches on its directory.
ReattachFallsBack ==
  /\ reattachTimers > 0
  /\ WantsWatcher(settings)
  /\ reattachTimers' = reattachTimers - 1
  /\ InitializeOn(settings, "directory")
  /\ UNCHANGED <<settings, bibFile, isUpdatingFromFileWatcher, passes,
                 userSaves, importLog, edits>>
  /\ EngineStep

\* The re-attach timer of a 'rename' event fires; attaches tells whether
\* fs.watch attaches.
ReattachWith(attaches) ==
  /\ reattachTimers > 0
  /\ reattachTimers' = reattachTimers - 1
  /\ InitializeWith(settings, attaches)
  /\ UNCHANGED <<settings, bibFile, isUpdatingFromFileWatcher, passes,
                 userSaves, importLog, edits>>
  /\ EngineStep

\* The re-attach timer of a 'rename' event fires and fs.watch throws for the
\* file and for its directory.
ReattachFails ==
  /\ WantsWatcher(settings)
  /\ ReattachWith(FALSE)

\* The re-attach timer of a 'rename' event fires and fs.watch attaches.
ReattachTimeout ==
  /\ reattachTimers > 0
  /\ reattachTimers' = reattachTimers - 1
  /\ InitializeBibFileWatcher(settings)
  /\ UNCHANGED <<settings, bibFile, isUpdatingFromFileWatcher, passes,
                 userSaves, importLog, edits>>
  /\ EngineStep

\* The observer held emits 'error': the listener logs it with console.warn.
WatcherError ==
  /\ bibFileWatcher.attached
  /\ ~bibFileWatcher.errored
  /\ bibFileWatcher' = [bibFileWatcher EXCEPT !.errored = TRUE]
  /\ UNCHANGED <<settings, bibFile, observers, uncaught, isUpdatingFromFileWatcher,
                 handlerPending, orphanTimers, reattachTimers, passes, userSaves,
                 importLog, edits>>
  /\ EngineStep

\* Another program rewrites the bibliography file.
BibFileEdited(k, v) ==
  /\ edits < MaxEdits
  /\ Lookup(bibFile, k) # v
  /\ edits' = edits + 1
  /\ bibFile' = Assign(bibFile, k, v)
  /\ UNCHANGED <<settings, bibFileWatcher, observers, uncaught,
                 isUpdatingFromFileWatcher, handlerPending, orphanTimers,
                 reattachTimers, passes, userSaves, importLog>>
  /\ EngineStep

\* ------------------------------------------------- annotation interval timer

\* A start or stop that leaves the timer held running.
Cleared_LeftRunning(n, held) == n

\* if (this.annotationMonitorInterval) clearInterval(...): the number of
\* interval timers running once the one held, if any, is cleared.
Cleared(n, held) == IF held THEN n - 1 ELSE n

\* startAnnotationMonitoring(): the timer held is cleared and a new one set.
startAnnotationMonitoring ==
  /\ annotationMonitorInterval' = TRUE
  /\ intervalTimers' = Cleared(intervalTimers, annotationMonitorInterval) + 1

\* stopAnnotationMonitoring(): the timer held is cleared.
stopAnnotationMonitoring ==
  /\ annotationMonitorInterval' = FALSE
  /\ intervalTimers' = Cleared(intervalTimers, annotationMonitorInterval)

\* ------------------------------------------------------------ import passes

\* The citation keys the key-extraction regex finds in the file.
CitekeySet(file) == DOMAIN file

\* A pass that takes every key of the file for new.
NewKeys_EveryKey(file, imported) == Sorted(CitekeySet(file))

\* allKeys.filter((k) => !imported[k])
NewKeys(file, imported) ==
  Filter(Sorted(CitekeySet(file)),
         {k \in CiteKeys : ~Truthy(Lookup(imported, k))})

\* The keys whose entry changed since the previous pass read the file and
\* that have a document recorded in importedItems.
ChangedImported ==
  IF passes = <<>> THEN {}
  ELSE LET before == passes[Len(passes)].bibAtRead
       IN {k \in DOMAIN bibFile \cap DOMAIN before :
             /\ bibFile[k] # before[k]
             /\ Truthy(Lookup(settings.importedItems, k))}

\* A pass that returned before its first await.
Returned(kind, why) ==
  [kind |-> kind, pc |-> "done", outcome |-> why, newKeys |-> <<>>,
   createdPaths |-> <<>>, attempted |-> <<>>, failed |-> FALSE,
   bibAtRead |-> bibFile, expected |-> Sorted(CitekeySet(bibFile) \ DOMAIN settings.importedItems),
   second |-> FALSE, reinitialised |-> FALSE,
   changed |-> ChangedImported,
   errors |-> <<>>, saves |-> 0, fileRead |-> (why # "noPath"),
   readFailed |-> FALSE]

\* The previous pass ran to completion without an import error, no pass is
\* in flight, and the bibliography is what that pass read.
InSuccession ==
  /\ passes # <<>>
  /\ \A i \in 1..Len(passes) : passes[i].pc = "done"
  /\ passes[Len(passes)].outcome = "completed"
  /\ ~passes[Len(passes)].failed
  /\ passes[Len(passes)].bibAtRead = bibFile

\* One call of the external import: runImport(formatName, citekey, ...).
Invocation(p, citekey) ==
  [key |-> citekey,
   recorded |-> Lookup(settings.importedItems, citekey),
   second |-> passes'[p].second]

\* A read that hands the content over although fs.readFileSync threw.
ReadBibFile_GoesOnWhenUnreadable(file, readable) == [ok |-> TRUE, content |-> file]

\* try { content = fs.readFileSync(bibPath, 'utf-8') } catch (e) { ...; return }
ReadBibFile(file, readable) == [ok |-> readable, content |-> file]

\* detectAndImportNewCitations() / importBbtCollection() from their entry to
\* their first await; readable tells whether fs.readFileSync returns the
\* content or throws.
BeginPass(kind, readable) ==
  LET p == Len(passes) + 1
      newKeys == NewKeys(bibFile, settings.importedItems)
      running(pc) ==
        [kind |-> kind, pc |-> pc, outcome |-> "running", newKeys |-> newKeys,
         createdPaths |-> <<>>,
         attempted |-> IF pc = "import" THEN <<Head(newKeys)>> ELSE <<>>,
         failed |-> FALSE, bibAtRead |-> bibFile,
         expected |-> Sorted(CitekeySet(bibFile) \ DOMAIN settings.importedItems),
         second |-> InSuccession, reinitialised |-> FALSE,
         changed |-> ChangedImported,
         errors |-> <<>>, saves |-> 0, fileRead |-> TRUE, readFailed |-> FALSE]
      read == ReadBibFile(bibFile, readable)
      mark(rec) == [rec EXCEPT !.readFailed = ~readable]
  IN
  /\ Len(passes) < MaxPasses
  /\ IF settings.betterBibFilePath = EmptyStr
     THEN /\ passes' = Append(passes, Returned(kind, "noPath"))
          /\ UNCHANGED importLog
     ELSE IF ~read.ok
     THEN /\ passes' = Append(passes, mark(Returned(kind, "readError")))
          /\ UNCHANGED importLog
     ELSE IF CitekeySet(bibFile) = {}
     THEN /\ passes' = Append(passes, mark(Returned(kind, "noKeys")))
          /\ UNCHANGED importLog
     ELSE IF newKeys = <<>>
     THEN /\ passes' = Append(passes, mark([Returned(kind, "noNew") EXCEPT !.second = InSuccession]))
          /\ UNCHANGED importLog
     ELSE IF settings.exportFormats = 0
     THEN /\ passes' = Append(passes, mark(Returned(kind, "noFormat")))
          /\ UNCHANGED importLog
     ELSE IF settings.exportFormats = 1
     THEN /\ passes' = Append(passes, mark(running("import")))
          /\ importLog' = importLog \cup {Invocation(p, Head(newKeys))}
     ELSE /\ passes' = Append(passes, mark(running("pick")))
          /\ UNCHANGED importLog

PassFrame == UNCHANGED <<settings, bibFile, bibFileWatcher, observers, uncaught,
                         isUpdatingFromFileWatcher,
                         reattachTimers, userSaves, edits>>

\* The debounce timer of the current handler fires: handleBibFileChange().
HandlerTimeout ==
  /\ handlerPending
  /\ handlerPending' = FALSE
  /\ \E readable \in BOOLEAN : BeginPass("watcher", readable)
  /\ UNCHANGED orphanTimers
  /\ PassFrame
  /\ EngineStep

\* A timer left in the handler of a closed observer fires.
OrphanTimeout ==
  /\ orphanTimers > 0
  /\ orphanTimers' = orphanTimers - 1
  /\ \E readable \in BOOLEAN : BeginPass("watcher", readable)
  /\ UNCHANGED handlerPending
  /\ PassFrame
  /\ EngineStep

\* Command 'Import Zotero collection (Better BibTeX .bib)'.
ManualImport ==
  /\ \E readable \in BOOLEAN : BeginPass("manual", readable)
  /\ UNCHANGED <<handlerPending, orphanTimers>>
  /\ PassFrame
  /\ EngineStep

\* A loop that saves the settings after every key.
SavesAfter_EveryKey(rec, keys) == rec.saves + 1

\* The number of saveSettings() calls a pass has made when it goes on with
\* the keys left: the call is made when none is left.
SavesAfter(rec, keys) == IF keys = <<>> THEN rec.saves + 1 ELSE rec.saves

\* Entering the import loop, or its next iteration: the external import is
\* called for the first key left; with no key left, saveSettings() is called
\* (a watcher pass raises isUpdatingFromFileWatcher first).
Continue(p, rec, keys) ==
  IF keys # <<>>
  THEN /\ passes' = [passes EXCEPT ![p] =
                       [rec EXCEPT !.pc = "import", !.newKeys = keys,
                                   !.attempted = Append(rec.attempted, Head(keys)),
                                   !.saves = SavesAfter(rec, keys)]]
       /\ importLog' = importLog \cup
            {[key |-> Head(keys),
              recorded |-> Lookup(settings'.importedItems, Head(keys)),
              second |-> rec.second]}
       /\ UNCHANGED isUpdatingFromFileWatcher
  ELSE /\ passes' = [passes EXCEPT ![p] = [rec EXCEPT !.pc = "save", !.newKeys = <<>>,
                                                      !.saves = SavesAfter(rec, keys)]]
       /\ isUpdatingFromFileWatcher' =
            IF rec.kind = "watcher" THEN TRUE ELSE isUpdatingFromFileWatcher
       /\ UNCHANGED importLog

\* pickImportFormat() resolves: with a format name, or with nothing when the
\* user closes the picker.
FormatPicked(p, picked) ==
  /\ p \in 1..Len(passes)
  /\ passes[p].pc = "pick"
  /\ UNCHANGED settings
  /\ IF picked
     THEN Continue(p, passes[p], passes[p].newKeys)
     ELSE /\ passes' = [passes EXCEPT ![p].pc = "done", ![p].outcome = "cancelled",
                                      ![p].newKeys = <<>>]
          /\ UNCHANGED <<importLog, isUpdatingFromFileWatcher>>
  /\ UNCHANGED <<bibFile, reattachTimers, userSaves, edits>>
  /\ WatcherUntouched
  /\ EngineStep

\* What one call of the external import can come back with.
ImportOutcomes == {"path", "nopath", "throw"}

\* A loop that records the placeholder for a key whose import threw.
RecordImport_AlsoWhenThrown(imported, citekey, outcome) ==
  IF outcome = "path" THEN Assign(imported, citekey, PathOf[citekey])
  ELSE Assign(imported, citekey, EmptyStr)

\* this.settings.importedItems[citekey] = paths[0] || ''
RecordImport(imported, citekey, outcome) ==
  IF outcome = "path" THEN Assign(imported, citekey, PathOf[citekey])
  ELSE IF outcome = "nopath" THEN Assign(imported, citekey, EmptyStr)
  ELSE imported

\* await this.runImport(...) comes back for the key in flight: one iteration
\* of the import loop, up to the next await.
ImportReturns(p, outcome) ==
  /\ p \in 1..Len(passes)
  /\ passes[p].pc = "import"
  /\ LET citekey == Head(passes[p].newKeys)
         rec == [passes[p] EXCEPT
                   !.createdPaths = IF outcome = "path"
                                    THEN Append(@, PathOf[citekey]) ELSE @,
                   !.failed = (outcome = "throw") \/ @,
                   !.errors = IF outcome = "throw" THEN Append(@, citekey) ELSE @]
     IN /\ settings' = [settings EXCEPT
                          !.importedItems = RecordImport(@, citekey, outcome)]
        /\ Continue(p, rec, Tail(passes[p].newKeys))
  /\ UNCHANGED <<bibFile, reattachTimers, userSaves, edits>>
  /\ WatcherUntouched
  /\ EngineStep

\* saveSettings() after its await this.saveData(...): the watcher and the
\* annotation timer are re-initialised unless isUpdatingFromFileWatcher is set.
AfterSaveData ==
  IF ~isUpdatingFromFileWatcher
  THEN /\ InitializeBibFileWatcher(settings)
       /\ IF settings.annotationMonitoring.enabled
          THEN startAnnotationMonitoring
          ELSE stopAnnotationMonitoring
  ELSE /\ WatcherUntouched
       /\ UNCHANGED <<annotationMonitorInterval, intervalTimers>>

\* What the rest of saveSettings() leaves alone.
SaveStep ==
  UNCHANGED <<debounceVars, call, autorun, delivered, unloaded,
              isMonitoringAnnotations, annotationCache, lastAnnotationCheck, checks>>

\* The saveData of a pass completes: the rest of saveSettings(), then the
\* rest of the pass (a watcher pass lowers isUpdatingFromFileWatcher).
PassSaveResolved(p) ==
  /\ p \in 1..Len(passes)
  /\ passes[p].pc = "save"
  /\ AfterSaveData
  /\ isUpdatingFromFileWatcher' =
       IF passes[p].kind = "watcher" THEN FALSE ELSE isUpdatingFromFileWatcher
  /\ passes' = [passes EXCEPT ![p].pc = "done", ![p].outcome = "completed",
                                   ![p].reinitialised = ~isUpdatingFromFileWatcher]
  /\ UNCHANGED <<settings, bibFile, reattachTimers, userSaves, importLog, edits>>
  /\ SaveStep

\* ---------------------------------------------------------- startup import

\* Time passes after load.
StartupTick ==
  /\ clock + StartupClockStep <= MaxStartupClock
  /\ clock' = clock + StartupClockStep
  /\ UNCHANGED <<engineVars, debounceDue, lastEvent, burstStarts, lastTrigger, call>>

\* A timer that may fire as soon as it is set.
TimerDue_AtOnce(due, now) == TRUE

\* setTimeout(callback, delay): the callback runs no earlier than the delay
\* after the timer was set.
TimerDue(due, now) == now >= due

\* The startup timer fires: the callback calls isZoteroRunning(database,
\* true) and suspends on it.
AutorunTimeout ==
  /\ autorun.pc = "timer"
  /\ TimerDue(autorun.due, clock)
  /\ autorun' = [autorun EXCEPT !.pc = "checking", !.firedAt = clock]
  /\ UNCHANGED <<handlerPending, orphanTimers, passes, importLog>>
  /\ PassFrame
  /\ UNCHANGED <<debounceVars, call, delivered, unloaded, monitorVars>>

\* isZoteroRunning resolves: with true the callback calls
\* importBbtCollection(true), with false it logs a warning.
ZoteroChecked(running) ==
  /\ autorun.pc = "checking"
  /\ autorun' = [autorun EXCEPT !.pc = "done", !.running = running]
  /\ IF running
     THEN \E readable \in BOOLEAN : BeginPass("autorun", readable)
     ELSE UNCHANGED <<passes, importLog>>
  /\ UNCHANGED <<handlerPending, orphanTimers>>
  /\ PassFrame
  /\ UNCHANGED <<debounceVars, call, delivered, unloaded, monitorVars>>

\* ------------------------------------------------------ annotation monitor

\* The content hashes of the annotation data the collaborator returns for a
\* key: of no annotation, and of two sets of annotations.
AnnotationHashes == {"none", "h1", "h2"}

\* What getAttachmentsFromCiteKey comes back with for one key: attachment
\* data with one of the hashes, no data, or an exception.
AttachmentAnswers ==
  {[kind |-> "data", hash |-> h] : h \in AnnotationHashes}
    \cup {[kind |-> "nodata", hash |-> "none"], [kind |-> "throws", hash |-> "none"]}

\* Date.now() in pass c: later passes have later times.
Now(c) == c

\* AnnotationCacheManager.createCacheEntry(citekey, attachmentData)
createCacheEntry(citekey, answer, c) ==
  [citekey |-> citekey, lastChecked |-> Now(c), contentHash |-> answer.hash]

\* AnnotationCacheManager.detectChanges(oldEntry, newEntry).hasChanges
hasChanges(cache, citekey, newEntry) ==
  IF citekey \notin DOMAIN cache THEN newEntry.contentHash # "none"
  ELSE cache[citekey].contentHash # newEntry.contentHash

\* AnnotationCacheManager.updateCacheEntry(citekey, database, currentCache):
\* null when there is no attachment data or the call failed.
updateCacheEntry(citekey, answer, cache, c) ==
  IF answer.kind # "data" THEN [null |-> TRUE, entry |-> <<>>, hasChanges |-> FALSE]
  ELSE LET newEntry == createCacheEntry(citekey, answer, c)
       IN [null |-> FALSE, entry |-> newEntry,
           hasChanges |-> hasChanges(cache, citekey, newEntry)]

\* A loop that writes an entry for a key without data.
CacheAfter_WritesOnNull(cache, citekey, result, c) ==
  Assign(cache, citekey,
         IF result.null THEN [citekey |-> citekey, lastChecked |-> Now(c),
                              contentHash |-> "none"]
         ELSE result.entry)

\* One iteration of processBatchAnnotationCheck: this.settings
\* .annotationCache[citekey] = result.entry when there is a result.
CacheAfter(cache, citekey, result, c) ==
  IF result.null THEN cache ELSE Assign(cache, citekey, result.entry)

\* array.slice(i, j) for 0 <= i <= j
Slice(array, i, j) ==
  SubSeq(array, i + 1, IF j < Len(array) THEN j ELSE Len(array))

\* A guard that lets every call through.
InProgress_Never(flag) == FALSE

\* if (this.isMonitoringAnnotations) { ...; return; }
InProgress(flag) == flag

\* A call that found a pass in progress and returned.
SkippedCheck(source) ==
  [source |-> source, pc |-> "skipped", importedCitekeys |-> <<>>, maxBatch |-> 0,
   i |-> 0, batch |-> <<>>, checked |-> <<>>, batches |-> <<>>, pauses |-> 0,
   reported |-> <<>>, unanswered |-> <<>>, saved |-> FALSE]

\* A loop that pauses after the last batch too.
PauseWanted_AfterEveryBatch(i, maxBatch, length) == TRUE

\* if (i + maxBatch < importedCitekeys.length) await new Promise(...)
PauseWanted(i, maxBatch, length) == i + maxBatch < length

\* The end of a batch: the pause before the next one, or, after the last,
\* the end of the loop: lastAnnotationCheck is set and saveSettings() called.
\* The count of pauses stops at one more than the keys.
AfterBatch(rec) ==
  IF PauseWanted(rec.i, rec.maxBatch, Len(rec.importedCitekeys))
  THEN [rec EXCEPT !.pc = "pause", !.batch = <<>>,
                   !.pauses = IF @ <= Len(rec.importedCitekeys) THEN @ + 1 ELSE @]
  ELSE [rec EXCEPT !.pc = "save", !.batch = <<>>]

\* The loop at index i: out of the loop when i is past the last key, else
\* await processBatchAnnotationCheck(importedCitekeys.slice(i, i + maxBatch)),
\* which suspends on the first key of the batch, or, for an empty batch, on
\* the call itself.
EnterBatch(rec, i) ==
  IF i >= Len(rec.importedCitekeys)
  THEN [rec EXCEPT !.pc = "save", !.i = i, !.batch = <<>>]
  ELSE LET batch == Slice(rec.importedCitekeys, i, i + rec.maxBatch)
       IN IF batch = <<>> THEN [rec EXCEPT !.pc = "batch", !.i = i, !.batch = <<>>]
          ELSE [rec EXCEPT !.pc = "update", !.i = i, !.batch = batch,
                           !.checked = Append(@, Head(batch)),
                           !.batches = Append(@, batch)]

\* processBatchAnnotationCheck has returned: the pause, or i += maxBatch and
\* the test of the loop, which fails.
EndBatch(rec) ==
  LET ended == AfterBatch(rec)
  IN IF ended.pc = "save" THEN EnterBatch(rec, rec.i + rec.maxBatch) ELSE ended

\* this.settings.lastAnnotationCheck = Date.now(), when pass c leaves the loop.
StampAfter(rec, c) == IF rec.pc = "save" THEN Now(c) ELSE lastAnnotationCheck

MonitorFrame ==
  UNCHANGED <<bibFile, isUpdatingFromFileWatcher, reattachTimers, passes, userSaves,
              importLog, edits, autorun, delivered, unloaded, debounceVars, call>>

\* checkForAnnotationChanges() from its entry to its first await, called by
\* the interval timer or by the command (which tests the flag itself).
BeginCheck(source) ==
  LET c == Len(checks) + 1
      fresh == [SkippedCheck(source) EXCEPT
                  !.pc = "begin",
                  !.importedCitekeys = ObjectKeys(settings.importedItems),
                  !.maxBatch = settings.annotationMonitoring.maxItemsPerBatch]
      rec == EnterBatch(fresh, 0)
  IN
  /\ Len(checks) < MaxChecks
  /\ IF InProgress(isMonitoringAnnotations)
     THEN /\ checks' = Append(checks, SkippedCheck(source))
          /\ UNCHANGED <<isMonitoringAnnotations, lastAnnotationCheck>>
     ELSE /\ checks' = Append(checks, rec)
          /\ isMonitoringAnnotations' = TRUE
          /\ lastAnnotationCheck' = StampAfter(rec, c)
  /\ UNCHANGED <<settings, annotationCache, annotationMonitorInterval, intervalTimers>>
  /\ WatcherUntouched
  /\ MonitorFrame

\* An interval timer of startAnnotationMonitoring() fires.
IntervalTick ==
  /\ intervalTimers > 0
  /\ BeginCheck("interval")

\* Command 'Check for annotation changes'.
CheckCommand == BeginCheck("command")

\* await AnnotationCacheManager.updateCacheEntry(...) comes back for the key
\* in flight: the rest of the iteration, up to the next await of the pass.
UpdateCacheEntryReturns(c, answer) ==
  /\ c \in 1..Len(checks)
  /\ checks[c].pc = "update"
  /\ LET citekey == Head(checks[c].batch)
         result == updateCacheEntry(citekey, answer, annotationCache, c)
         seen == [checks[c] EXCEPT
                    !.reported = IF result.hasChanges THEN Append(@, citekey) ELSE @,
                    !.unanswered = IF result.null THEN Append(@, citekey) ELSE @]
         rest == Tail(checks[c].batch)
         rec == IF rest # <<>>
                THEN [seen EXCEPT !.batch = rest, !.checked = Append(@, Head(rest))]
                ELSE EndBatch(seen)
     IN /\ annotationCache' = CacheAfter(annotationCache, citekey, result, c)
        /\ checks' = [checks EXCEPT ![c] = rec]
        /\ lastAnnotationCheck' = StampAfter(rec, c)
  /\ UNCHANGED <<settings, isMonitoringAnnotations, annotationMonitorInterval,
                 intervalTimers>>
  /\ WatcherUntouched
  /\ MonitorFrame

\* await this.processBatchAnnotationCheck(batch) comes back for an empty
\* batch.
EmptyBatchReturns(c) ==
  /\ c \in 1..Len(checks)
  /\ checks[c].pc = "batch"
  /\ LET rec == EndBatch(checks[c])
     IN /\ checks' = [checks EXCEPT ![c] = rec]
        /\ lastAnnotationCheck' = StampAfter(rec, c)
  /\ UNCHANGED <<settings, isMonitoringAnnotations, annotationCache,
                 annotationMonitorInterval, intervalTimers>>
  /\ WatcherUntouched
  /\ MonitorFrame

\* The pause between two batches is over: i += maxBatch and the loop goes on.
PauseElapsed(c) ==
  /\ c \in 1..Len(checks)
  /\ checks[c].pc = "pause"
  /\ LET rec == EnterBatch(checks[c], checks[c].i + checks[c].maxBatch)
     IN /\ checks' = [checks EXCEPT ![c] = rec]
        /\ lastAnnotationCheck' = StampAfter(rec, c)
  /\ UNCHANGED <<settings, isMonitoringAnnotations, annotationCache,
                 annotationMonitorInterval, intervalTimers>>
  /\ WatcherUntouched
  /\ MonitorFrame

\* await this.saveSettings() of a pass comes back, resolved (the watcher and
\* the interval timer are set up again) or rejected (caught and logged):
\* finally, the flag is lowered.
CheckSaveReturns(c, resolved) ==
  /\ c \in 1..Len(checks)
  /\ checks[c].pc = "save"
  /\ IF resolved
     THEN AfterSaveData
     ELSE /\ WatcherUntouched
          /\ UNCHANGED <<annotationMonitorInterval, intervalTimers>>
  /\ checks' = [checks EXCEPT ![c].pc = "done", ![c].saved = resolved]
  /\ isMonitoringAnnotations' = FALSE
  /\ UNCHANGED <<settings, annotationCache, lastAnnotationCheck>>
  /\ MonitorFrame

\* ------------------------------------------------------------ settings tab

\* The settings tab changes one of the auto-sync settings and calls
\* saveSettings(), which suspends at await this.saveData(...).
UserChangesSetting(name, value) ==
  /\ Len(userSaves) < MaxUserSaves
  /\ settings[name] # value
  /\ settings' = [settings EXCEPT ![name] = value]
  /\ userSaves' = Append(userSaves, [pc |-> "save", reinitialised |-> FALSE])
  /\ UNCHANGED <<bibFile, isUpdatingFromFileWatcher, reattachTimers, passes,
                 importLog, edits>>
  /\ WatcherUntouched
  /\ EngineStep

\* Command 'Toggle annotation monitoring': enabled is negated and
\* saveSettings() called.
ToggleMonitoringCommand ==
  UserChangesSetting("annotationMonitoring",
                     [settings.annotationMonitoring EXCEPT !.enabled = ~@])

\* The saveData of a settings-tab save completes.
UserSaveResolved(u) ==
  /\ u \in 1..Len(userSaves)
  /\ userSaves[u].pc = "save"
  /\ AfterSaveData
  /\ userSaves' = [userSaves EXCEPT ![u] =
                     [pc |-> "done", reinitialised |-> ~isUpdatingFromFileWatcher]]
  /\ UNCHANGED <<settings, bibFile, isUpdatingFromFileWatcher, reattachTimers,
                 passes, importLog, edits>>
  /\ SaveStep

\* The saveData of a settings-tab save completes and fs.watch throws for the
\* file and for its directory: saveSettings() rejects.
UserSaveFails(u) ==
  /\ u \in 1..Len(userSaves)
  /\ userSaves[u].pc = "save"
  /\ ~isUpdatingFromFileWatcher
  /\ WantsWatcher(settings)
  /\ InitializeWith(settings, FALSE)
  /\ userSaves' = [userSaves EXCEPT ![u] = [pc |-> "done", reinitialised |-> TRUE]]
  /\ UNCHANGED <<settings, bibFile, isUpdatingFromFileWatcher, reattachTimers,
                 passes, importLog, edits>>
  /\ EngineStep

\* ------------------------------------------------------------------ unload

\* onunload(): the observer held is closed and the annotation interval timer
\* cleared. Timers set with setTimeout, the timer of the debounced handler
\* and calls that are suspended at an await stay as they are.
Unload ==
  /\ ~unloaded
  /\ unloaded' = TRUE
  /\ bibFileWatcher' = NoWatcher
  /\ observers' = Closed(observers, bibFileWatcher)
  /\ handlerPending' = FALSE
  /\ orphanTimers' = orphanTimers + (IF handlerPending THEN 1 ELSE 0)
  /\ stopAnnotationMonitoring
  /\ UNCHANGED <<settings, bibFile, uncaught, isUpdatingFromFileWatcher,
                 reattachTimers, passes, userSaves, importLog, edits, autorun,
                 delivered, isMonitoringAnnotations, annotationCache,
                 lastAnnotationCheck, checks, debounceVars, call>>

\* ------------------------------------------------------------ specification

\* this.settings after loadSettings() on a configured installation that has
\* imported nothing yet, with n import formats.
LoadedSettings(n) ==
  [betterBibFilePath |-> BibPath, autoSyncBibFile |-> TRUE,
   bibWatchDebounce |-> DefaultDebounce, exportFormats |-> n,
   importedItems |-> << >>, metadataMap |-> << >>,
   autorunOnStartup |-> FALSE,
   annotationMonitoring |-> [enabled |-> FALSE,
                             maxItemsPerBatch |-> DefaultMaxItemsPerBatch]]

\* if (this.settings.autorunOnStartup) setTimeout(..., 5000) in onload(): the
\* timer is set when the setting is on at load, due 5 s after load (time 0).
Autorun(s) ==
  [pc |-> IF s.autorunOnStartup THEN "timer" ELSE "off", due |-> AutorunDelay,
   running |-> FALSE, firedAt |-> NoTimer]

\* The state onload() leaves: the settings are loaded and
\* initializeBibFileWatcher() has run.
LoadedFrom(settingsChoices, keySets) ==
  /\ settings \in settingsChoices
  /\ bibFile \in {[k \in K |-> "Old"] : K \in keySets}
  /\ bibFileWatcher = Observer(settings)
  /\ observers = 1
  /\ uncaught = FALSE
  /\ isUpdatingFromFileWatcher = FALSE
  /\ handlerPending = FALSE
  /\ orphanTimers = 0
  /\ reattachTimers = 0
  /\ passes = <<>>
  /\ userSaves = <<>>
  /\ importLog = {}
  /\ edits = 0
  /\ autorun = Autorun(settings)
  /\ delivered = NoEvent
  /\ unloaded = FALSE
  /\ isMonitoringAnnotations = FALSE
  /\ annotationCache = <<>>
  /\ lastAnnotationCheck = 0
  /\ annotationMonitorInterval = settings.annotationMonitoring.enabled
  /\ intervalTimers = (IF settings.annotationMonitoring.enabled THEN 1 ELSE 0)
  /\ checks = <<>>
  /\ clock = 0
  /\ debounceDue = NoTimer
  /\ lastEvent = NoTimer
  /\ burstStarts = 0
  /\ lastTrigger = [at |-> NoTimer, lastEvent |-> NoTimer]

\* The same for the settings the engine reads.
LoadedWith(formatCounts, keySets, delays, autoruns) ==
  LoadedFrom({[LoadedSettings(n) EXCEPT !.bibWatchDebounce = d,
                                        !.autorunOnStartup = r] :
                n \in formatCounts, d \in delays, r \in autoruns},
             keySets)

\* The same with autorunOnStartup off, as it is by default.
Loaded(formatCounts, keySets, delays) ==
  LoadedWith(formatCounts, keySets, delays, {FALSE})

\* The engine as onload() leaves it with the default settings and one format.
AtRest == Loaded({1}, {CiteKeys}, {DefaultDebounce})

Init == Loaded(0..2, SUBSET CiteKeys, {DefaultDebounce}) /\ call = NoCall

\* The watcher, its timers and the import passes.
Next ==
  \/ \E t \in {"change", "rename"} : WatchEvent(t)
  \/ ReattachTimeout
  \/ HandlerTimeout
  \/ OrphanTimeout
  \/ ManualImport
  \/ \E p \in 1..MaxPasses, picked \in BOOLEAN : FormatPicked(p, picked)
  \/ \E p \in 1..MaxPasses, o \in ImportOutcomes : ImportReturns(p, o)
  \/ \E p \in 1..MaxPasses : PassSaveResolved(p)

Spec == Init /\ [][Next]_vars

\* The same, with the bibliography file rewritten while the plugin runs.
InitSync == Loaded(1..2, {{"a"}}, {DefaultDebounce}) /\ call = NoCall

NextSync ==
  \/ Next
  \/ \E k \in CiteKeys, v \in FieldValues : BibFileEdited(k, v)

SpecSync == InitSync /\ [][NextSync]_vars

\* The same, with the settings tab changing the auto-sync settings.
InitSettings == Loaded(1..2, {{"a"}}, {DefaultDebounce}) /\ call = NoCall

NextSettings ==
  \/ Next
  \/ \E v \in BOOLEAN : UserChangesSetting("autoSyncBibFile", v)
  \/ \E v \in {EmptyStr, BibPath} : UserChangesSetting("betterBibFilePath", v)
  \/ \E v \in DelayChoices : UserChangesSetting("bibWatchDebounce", v)
  \/ \E u \in 1..MaxUserSaves : UserSaveResolved(u)

SpecSettings == InitSettings /\ [][NextSettings]_vars

\* The watcher falling back on the directory of a file that was renamed away.
InitFallback == Loaded(1..2, {{"a"}}, {DefaultDebounce}) /\ call = NoCall

NextFallback ==
  \/ Next
  \/ ReattachFallsBack
  \/ \E t \in EventTypes, f \in Filenames : DirectoryWatchEvent(t, f)

SpecFallback == InitFallback /\ [][NextFallback]_vars

\* The plugin loaded with autorunOnStartup and annotation monitoring on or
\* off, and unloaded at any moment: the commands go with the plugin, the
\* timers and the suspended calls stay.
InitUnload ==
  /\ LoadedFrom({[LoadedSettings(n) EXCEPT
                    !.autorunOnStartup = r,
                    !.annotationMonitoring = [enabled |-> e, maxItemsPerBatch |-> MaxBatch]] :
                   n \in 1..2, r \in BOOLEAN, e \in BOOLEAN},
                {{"a"}})
  /\ call = NoCall

NextUnload ==
  \/ Unload
  \/ \E t \in EventTypes : WatchEvent(t)
  \/ ReattachTimeout
  \/ HandlerTimeout
  \/ OrphanTimeout
  \/ ~unloaded /\ ManualImport
  \/ \E p \in 1..MaxPasses, picked \in BOOLEAN : FormatPicked(p, picked)
  \/ \E p \in 1..MaxPasses, o \in ImportOutcomes : ImportReturns(p, o)
  \/ \E p \in 1..MaxPasses : PassSaveResolved(p)
  \/ StartupTick
  \/ AutorunTimeout
  \/ \E running \in BOOLEAN : ZoteroChecked(running)

SpecUnload == InitUnload /\ [][NextUnload]_vars

\* The plugin after load with autorunOnStartup on or off, on a clock.
InitStartup ==
  LoadedWith(1..2, {{"a"}}, {DefaultDebounce}, BOOLEAN) /\ call = NoCall

NextStartup ==
  \/ Next
  \/ StartupTick
  \/ AutorunTimeout
  \/ \E running \in BOOLEAN : ZoteroChecked(running)

SpecStartup == InitStartup /\ [][NextStartup]_vars

\* The first n of the citation keys of the annotation monitor.
MonitorKeyOrder == <<"a", "b", "c", "d">>
ImportedKeys(n) == {MonitorKeyOrder[i] : i \in 1..n}

\* The plugin after load with some keys imported, monitoring enabled or not,
\* and a configured batch size.
InitMonitor ==
  /\ LoadedFrom({[LoadedSettings(1) EXCEPT
                    !.importedItems = [k \in ImportedKeys(n) |-> "/notes/" \o k],
                    !.annotationMonitoring = [enabled |-> e, maxItemsPerBatch |-> b]] :
                   n \in 0..MaxImported, e \in BOOLEAN, b \in 0..MaxBatch},
                {CiteKeys})
  /\ call = NoCall

\* The annotation check passes, called by the interval timer and the command.
NextMonitor ==
  \/ IntervalTick
  \/ CheckCommand
  \/ \E c \in 1..MaxChecks, answer \in AttachmentAnswers :
       UpdateCacheEntryReturns(c, answer)
  \/ \E c \in 1..MaxChecks : EmptyBatchReturns(c)
  \/ \E c \in 1..MaxChecks : PauseElapsed(c)
  \/ \E c \in 1..MaxChecks, resolved \in BOOLEAN : CheckSaveReturns(c, resolved)

SpecMonitor == InitMonitor /\ [][NextMonitor]_vars

\* The annotation check passes beside the file watcher, its import passes
\* and the toggle command.
InitMonitorSaves ==
  /\ LoadedFrom({[LoadedSettings(1) EXCEPT
                    !.annotationMonitoring = [enabled |-> e, maxItemsPerBatch |-> MaxBatch]] :
                   e \in BOOLEAN},
                {{"a"}})
  /\ call = NoCall

NextMonitorSaves ==
  \/ IntervalTick
  \/ CheckCommand
  \/ \E c \in 1..MaxChecks, answer \in {a \in AttachmentAnswers : a.kind # "throws" /\ a.hash \in {"none", "h1"}} :
       UpdateCacheEntryReturns(c, answer)
  \/ \E c \in 1..MaxChecks, resolved \in BOOLEAN : CheckSaveReturns(c, resolved)
  \/ WatchEvent("change")
  \/ HandlerTimeout
  \/ OrphanTimeout
  \/ \E p \in 1..MaxPasses, o \in {"path", "throw"} : ImportReturns(p, o)
  \/ \E p \in 1..MaxPasses : PassSaveResolved(p)
  \/ ToggleMonitoringCommand
  \/ \E u \in 1..MaxUserSaves : UserSaveResolved(u)

SpecMonitorSaves == InitMonitorSaves /\ [][NextMonitorSaves]_vars

\* The same, with every await of a pass coming back in the end.
SpecMonitorFair ==
  /\ InitMonitor
  /\ [][NextMonitor]_vars
  /\ \A c \in 1..MaxChecks :
       /\ WF_vars(\E answer \in AttachmentAnswers : UpdateCacheEntryReturns(c, answer))
       /\ WF_vars(EmptyBatchReturns(c))
       /\ WF_vars(PauseElapsed(c))
       /\ WF_vars(\E resolved \in BOOLEAN : CheckSaveReturns(c, resolved))

\* The same, with every timer that setTimeout has armed for a re-attach
\* firing in the end.
SpecRename == InitSettings /\ [][NextSettings]_vars /\ WF_vars(ReattachTimeout)

\* The same as SpecSettings, with observers that emit 'error' and fs.watch
\* calls that throw.
NextWatcher ==
  \/ NextSettings
  \/ WatcherError
  \/ ReattachFails
  \/ \E u \in 1..MaxUserSaves : UserSaveFails(u)

SpecWatcher == InitSettings /\ [][NextWatcher]_vars

\* ------------------------------------------------- the debouncer on a clock

\* The clock stops here.
MaxClock == 1500
\* The largest step of the clock between two actions, in milliseconds.
ClockStep == 250

\* The third argument of debounce(cb, timeout, resetTimer): the watcher calls
\* debounce(() => this.handleBibFileChange(), delay) without it.
ResetTimer == FALSE

\* A call of a debounced function at time t: with no timer set, one is set
\* to fire after the delay; with one set, it is moved only under resetTimer.
DebouncedCall(due, t, delay, resetTimer) ==
  IF due = NoTimer \/ resetTimer THEN t + delay ELSE due

\* Time passes, never beyond the moment a set timer fires.
Tick ==
  /\ clock < MaxClock
  /\ debounceDue = NoTimer \/ clock < debounceDue
  /\ clock' = IF debounceDue # NoTimer /\ debounceDue < clock + ClockStep
              THEN debounceDue ELSE clock + ClockStep
  /\ UNCHANGED <<engineVars, debounceDue, lastEvent, burstStarts, lastTrigger, call>>

\* The fs.watch callback at the current time: handler() is called. An event
\* that arrives less than the delay after the previous one continues its
\* burst; any other event starts a burst. A timer that is due runs first
\* (the event loop runs due timers before it polls for file events).
TimedWatchEvent ==
  /\ bibFileWatcher.attached
  /\ debounceDue = NoTimer \/ clock < debounceDue
  /\ debounceDue' = DebouncedCall(debounceDue, clock, bibFileWatcher.delay, ResetTimer)
  /\ burstStarts' =
       IF lastEvent # NoTimer /\ clock - lastEvent < bibFileWatcher.delay
       THEN burstStarts ELSE 0
  /\ lastEvent' = clock
  /\ UNCHANGED <<engineVars, clock, lastTrigger, call>>

\* The debouncer's timer fires: the callback calls handleBibFileChange().
TimedHandlerTimeout ==
  /\ debounceDue # NoTimer
  /\ debounceDue <= clock
  /\ debounceDue' = NoTimer
  /\ burstStarts' = burstStarts + 1
  /\ lastTrigger' = [at |-> clock, lastEvent |-> lastEvent]
  /\ UNCHANGED <<engineVars, clock, lastEvent, call>>

\* onload() with any debounce delay configured.
InitDebounce ==
  /\ Loaded({1}, {CiteKeys}, DelayChoices \cup {0})
  /\ call = NoCall

NextDebounce ==
  \/ Tick
  \/ TimedWatchEvent
  \/ TimedHandlerTimeout

SpecDebounce == InitDebounce /\ [][NextDebounce]_vars

\* this.settings without bibWatchDebounce (bibWatchDebounce?: number).
WithoutDebounce(s) == [f \in DOMAIN s \ {"bibWatchDebounce"} |-> s[f]]

\* onload() with any debounce delay configured, or none.
InitWindow ==
  /\ LoadedFrom({[LoadedSettings(1) EXCEPT !.bibWatchDebounce = d] :
                   d \in DelayChoices \cup {0}}
                  \cup {WithoutDebounce(LoadedSettings(1))},
                {CiteKeys})
  /\ call = NoCall

SpecWindow == InitWindow /\ [][NextDebounce]_vars

\* ------------------------------------------------------ bibSync: diffMetadata

\* The number of distinct field values drawn for the snapshots.
MaxValues == 2
\* The values, in the order they are drawn: BibTeX strings, '' the value of an
\* empty field.
ValueOrder == <<"Old", "New", "">>
DiffValues == {ValueOrder[i] : i \in 1..MaxValues}
\* The field names of the snapshots.
DiffFields == {"title", "year"}

\* Record<string, any>: the fields of one entry.
Metadata == UNION {[F -> DiffValues] : F \in SUBSET DiffFields}
\* Record<string, Record<string, any>>: a snapshot of the bibliography.
Snapshots == UNION {[K -> Metadata] : K \in SUBSET CiteKeys}

\* oldMap[citekey] || {}
MetaOf(map, citekey) == IF citekey \in DOMAIN map THEN map[citekey] ELSE <<>>

\* A comparison that takes every field of the new entry for a changed one.
FieldDiffers_EveryField(oldMeta, newMeta, field) == TRUE

\* A comparison that takes a field the old entry lacks for an unchanged one.
FieldDiffers_OnlyKnownFields(oldMeta, newMeta, field) ==
  field \in DOMAIN oldMeta /\ oldMeta[field] # newMeta[field]

\* oldMeta[field] !== newMeta[field]
FieldDiffers(oldMeta, newMeta, field) ==
  Lookup(oldMeta, field) # newMeta[field]

\* The inner loop: changed[field] = newMeta[field] for each differing field.
RECURSIVE ChangedFields(_, _, _, _)
ChangedFields(oldMeta, newMeta, fields, changed) ==
  IF fields = <<>> THEN changed
  ELSE LET field == Head(fields) IN
       ChangedFields(oldMeta, newMeta, Tail(fields),
                     IF FieldDiffers(oldMeta, newMeta, field)
                     THEN Assign(changed, field, newMeta[field])
                     ELSE changed)

\* The outer loop: diffs[citekey] = changed when changed has a key.
RECURSIVE DiffLoop(_, _, _, _)
DiffLoop(oldMap, newMap, citekeys, diffs) ==
  IF citekeys = <<>> THEN diffs
  ELSE LET citekey == Head(citekeys)
           oldMeta == MetaOf(oldMap, citekey)
           newMeta == MetaOf(newMap, citekey)
           changed == ChangedFields(oldMeta, newMeta, ObjectKeys(newMeta), <<>>)
       IN DiffLoop(oldMap, newMap, Tail(citekeys),
                   IF Cardinality(DOMAIN changed) > 0
                   THEN Assign(diffs, citekey, changed)
                   ELSE diffs)

\* A diff over the keys the old snapshot knows.
diffMetadata_KnownKeysOnly(oldMap, newMap) ==
  DiffLoop(oldMap, newMap, ObjectKeysOf(DOMAIN newMap \cap DOMAIN oldMap), <<>>)

diffMetadata(oldMap, newMap) == DiffLoop(oldMap, newMap, ObjectKeys(newMap), <<>>)

\* diffMetadata(oldMap, newMap) is called.
DiffCalled ==
  call \in {[fn |-> "diffMetadata", pc |-> "called", oldMap |-> o, newMap |-> n,
             result |-> <<>>] : o \in Snapshots, n \in Snapshots}

\* diffMetadata returns.
DiffReturns ==
  /\ call.fn = "diffMetadata"
  /\ call.pc = "called"
  /\ call' = [call EXCEPT !.pc = "returned",
                          !.result = diffMetadata(call.oldMap, call.newMap)]
  /\ UNCHANGED <<engineVars, debounceVars>>

InitDiff == AtRest /\ DiffCalled

NextDiff == DiffReturns

SpecDiff == InitDiff /\ [][NextDiff]_vars

\* ------------------------------------------- bibSync: patchFrontmatterContent

\* The longest body of plain text drawn, in tokens.
MaxBodyLen == 2

\* A document is a sequence of tokens: the delimiter '---', a line break, a
\* line 'key: value', and a run of other text without a line break.
DELIM == [t |-> "delim", k |-> "", v |-> ""]
NL == [t |-> "nl", k |-> "", v |-> ""]
TEXT == [t |-> "text", k |-> "", v |-> ""]
KV(k, v) == [t |-> "kv", k |-> k, v |-> v]

\* One entry of a metadata object; an object is the sequence of its entries
\* in insertion order.
Entry(k, v) == [k |-> k, v |-> v]
Keys(obj) == {obj[i].k : i \in 1..Len(obj)}
ValueOf(obj, k) == (CHOOSE e \in Range(obj) : e.k = k).v
AsMap(obj) == [k \in Keys(obj) |-> ValueOf(obj, k)]

\* target[k] = v
SetKey(target, k, v) ==
  IF k \in Keys(target)
  THEN [i \in 1..Len(target) |-> IF target[i].k = k THEN Entry(k, v) ELSE target[i]]
  ELSE Append(target, Entry(k, v))

\* { ...target, ...source } and Object.assign({}, target, source)
RECURSIVE ObjectAssign(_, _)
ObjectAssign(target, source) ==
  IF source = <<>> THEN target
  ELSE ObjectAssign(SetKey(target, Head(source).k, Head(source).v), Tail(source))

\* str.split('\n')
RECURSIVE SplitLines(_, _, _)
SplitLines(tokens, line, lines) ==
  IF tokens = <<>> THEN Append(lines, line)
  ELSE IF Head(tokens) = NL
       THEN SplitLines(Tail(tokens), <<>>, Append(lines, line))
       ELSE SplitLines(Tail(tokens), Append(line, Head(tokens)), lines)

\* The lines of a block that are not empty.
RECURSIVE NonEmpty(_)
NonEmpty(lines) ==
  IF lines = <<>> THEN <<>>
  ELSE (IF Head(lines) = <<>> THEN <<>> ELSE <<Head(lines)>>) \o NonEmpty(Tail(lines))

\* The YAML engine's parse of a block: a mapping of its 'key: value' lines;
\* it throws on a line that is no mapping entry and on a key given twice.
ParseYaml(block) ==
  LET lines == NonEmpty(SplitLines(block, <<>>, <<>>))
      wellFormed == \A i \in 1..Len(lines) :
                      Len(lines[i]) = 1 /\ lines[i][1].t = "kv"
      distinct == \A i, j \in 1..Len(lines) :
                    i # j => lines[i][1].k # lines[j][1].k
  IN IF wellFormed /\ distinct
     THEN [throws |-> FALSE,
           data |-> [i \in 1..Len(lines) |-> Entry(lines[i][1].k, lines[i][1].v)]]
     ELSE [throws |-> TRUE, data |-> <<>>]

\* The YAML engine's stringify of an object: one 'key: value' line per entry.
DumpYaml(data) ==
  [i \in 1..(2 * Len(data)) |->
     IF i % 2 = 1 THEN KV(data[(i + 1) \div 2].k, data[(i + 1) \div 2].v) ELSE NL]

\* str.indexOf('\n---') in the text after the opening delimiter; one past
\* the end when there is none.
CloseIndex(str) ==
  LET found == {i \in 1..(Len(str) - 1) : str[i] = NL /\ str[i + 1] = DELIM}
  IN IF found = {} THEN Len(str) + 1
     ELSE CHOOSE i \in found : \A j \in found : i <= j

\* The document as it is when no metadata block is read from it.
NoBlock(text) == [throws |-> FALSE, data |-> <<>>, content |-> text]

\* The call throws.
Thrown == [throws |-> TRUE, data |-> <<>>, content |-> <<>>]

\* matter(text): the metadata block at the head of the text and the body
\* after it. Text that does not open with the delimiter has no block; the
\* block runs to the first delimiter at the start of a line, or to the end;
\* one line break after the closing delimiter is not part of the body.
matter(text) ==
  IF Len(text) = 0 \/ text[1] # DELIM THEN NoBlock(text)
  ELSE IF Len(text) >= 2 /\ text[2] = DELIM THEN NoBlock(text)
  ELSE IF Len(text) >= 2 /\ text[2] # NL THEN Thrown
  ELSE LET str == Tail(text)
           closeIndex == CloseIndex(str)
           yaml == ParseYaml(SubSeq(str, 1, closeIndex - 1))
           rest == SubSeq(str, closeIndex + 2, Len(str))
           content == IF closeIndex = Len(str) + 1 THEN <<>>
                      ELSE IF rest # <<>> /\ rest[1] = NL THEN Tail(rest)
                      ELSE rest
       IN IF yaml.throws THEN Thrown
          ELSE [throws |-> FALSE, data |-> yaml.data, content |-> content]

\* newline(str) of the stringifier: str, with a line break added when it
\* does not end in one.
newline(str) ==
  IF str # <<>> /\ str[Len(str)] = NL THEN str ELSE Append(str, NL)

\* matter.stringify(content, data): a string is read with matter() first, the
\* object is laid over what was read, and a block is written when the object
\* has a key.
stringify(content, data) ==
  LET file == matter(content) IN
  IF file.throws THEN [throws |-> TRUE, text |-> <<>>]
  ELSE LET merged == ObjectAssign(file.data, data)
           buf == IF merged = <<>> THEN <<>>
                  ELSE newline(<<DELIM>>) \o newline(DumpYaml(merged)) \o newline(<<DELIM>>)
       IN [throws |-> FALSE, text |-> buf \o newline(file.content)]

patchFrontmatterContent(fileContent, updatedFields) ==
  LET parsed == matter(fileContent) IN
  IF parsed.throws THEN [throws |-> TRUE, text |-> <<>>]
  ELSE LET data == ObjectAssign(parsed.data, updatedFields)
       IN stringify(parsed.content, data)

\* A metadata block as it is written in a document, without the line break
\* after its closing delimiter.
Block(data) ==
  <<DELIM>> \o [i \in 1..(2 * Len(data)) |->
                  IF i % 2 = 1 THEN NL ELSE KV(data[i \div 2].k, data[i \div 2].v)]
            \o <<NL, DELIM>>

\* The entries the blocks of the documents hold, the last with a key twice.
BlockData ==
  {<<>>, <<Entry("title", "Old")>>, <<Entry("year", "Old")>>,
   <<Entry("title", "Old"), Entry("year", "Old")>>,
   <<Entry("year", "Old"), Entry("title", "Old")>>,
   <<Entry("title", "Old"), Entry("title", "Old")>>}

\* Text without a delimiter.
PlainText == UNION {[1..n -> {NL, TEXT}] : n \in 0..MaxBodyLen}

\* The documents: a block or none, then text that may itself open with the
\* delimiter line of a second block, then plain text.
Documents ==
  {head \o second \o plain :
     head \in {<<>>} \cup {Block(d) : d \in BlockData},
     second \in {<<>>} \cup {sep \o Block(d) \o end :
                               sep \in {<<>>, <<NL>>}, end \in {<<>>, <<NL>>},
                               d \in {<<>>, <<Entry("year", "Old")>>,
                                      <<Entry("tags", "Old")>>}},
     plain \in PlainText}

\* The field maps applied.
FieldMaps ==
  {<<>>, <<Entry("title", "New")>>, <<Entry("tags", "New")>>,
   <<Entry("title", "New"), Entry("tags", "New")>>}

\* patchFrontmatterContent(fileContent, updatedFields) is called.
PatchCalled ==
  call \in {[fn |-> "patchFrontmatterContent", pc |-> "called",
             fileContent |-> d, updatedFields |-> f,
             result |-> [throws |-> FALSE, text |-> <<>>]] :
              d \in Documents, f \in FieldMaps}

\* patchFrontmatterContent returns or throws.
PatchReturns ==
  /\ call.fn = "patchFrontmatterContent"
  /\ call.pc = "called"
  /\ call' = [call EXCEPT !.pc = "returned",
                          !.result = patchFrontmatterContent(call.fileContent,
                                                             call.updatedFields)]
  /\ UNCHANGED <<engineVars, debounceVars>>

InitPatch == AtRest /\ PatchCalled

NextPatch == PatchReturns

SpecPatch == InitPatch /\ [][NextPatch]_vars

\* Two patches in succession, patchFrontmatterContent(
\* patchFrontmatterContent(text, A), B), beside the one patch of the same
\* text with { ...A, ...B }, for A and B without a common key.
PatchTwiceCalled ==
  /\ call \in {[fn |-> "patchTwice", pc |-> "called",
                fileContent |-> d, fieldsA |-> a, fieldsB |-> b,
                first |-> [throws |-> FALSE, text |-> <<>>],
                second |-> [throws |-> FALSE, text |-> <<>>],
                merged |-> [throws |-> FALSE, text |-> <<>>]] :
                 d \in Documents, a \in FieldMaps, b \in FieldMaps}
  /\ Keys(call.fieldsA) \cap Keys(call.fieldsB) = {}

\* The patch with A returns or throws.
FirstPatchReturns ==
  /\ call.fn = "patchTwice"
  /\ call.pc = "called"
  /\ call' = [call EXCEPT !.pc = "first",
                          !.first = patchFrontmatterContent(call.fileContent,
                                                            call.fieldsA)]
  /\ UNCHANGED <<engineVars, debounceVars>>

\* The patch of the first result with B returns or throws; it is not called
\* when the first patch threw.
SecondPatchReturns ==
  /\ call.fn = "patchTwice"
  /\ call.pc = "first"
  /\ call' = [call EXCEPT !.pc = "second",
                          !.second = IF call.first.throws THEN call.first
                                     ELSE patchFrontmatterContent(call.first.text,
                                                                  call.fieldsB)]
  /\ UNCHANGED <<engineVars, debounceVars>>

\* The patch of the input with { ...A, ...B } returns or throws.
MergedPatchReturns ==
  /\ call.fn = "patchTwice"
  /\ call.pc = "second"
  /\ call' = [call EXCEPT !.pc = "returned",
                          !.merged = patchFrontmatterContent(
                                       call.fileContent,
                                       ObjectAssign(call.fieldsA, call.fieldsB))]
  /\ UNCHANGED <<engineVars, debounceVars>>

InitPatchTwice == AtRest /\ PatchTwiceCalled

NextPatchTwice == FirstPatchReturns \/ SecondPatchReturns \/ MergedPatchReturns

SpecPatchTwice == InitPatchTwice /\ [][NextPatchTwice]_vars

\* --------------------------------------------- bibSync: parseBibToMetadataMap

\* The most fields an entry of the bibliography texts drawn has.
MaxBibFields == 2

\* A bibliography text is a sequence of tokens: the characters the regular
\* expressions tell apart, white space, and runs of letters.
AT == "@"
LBRACE == "{"
RBRACE == "}"
COMMA == ","
EQUALS == "="
QUOTE == "\""
SPACE == " "
\* [a-zA-Z]+ : the runs of letters of the texts.
Letters == {"article", "title", "Title", "year", "Old", "New", "ka", "kb"}

\* fieldMatch[1].toLowerCase()
ToLowerCase(word) == IF word = "Title" THEN "title" ELSE word

\* The least member of a set of positions, 0 for none (a failed search).
First(positions) ==
  IF positions = {} THEN 0
  ELSE CHOOSE i \in positions : \A j \in positions : i <= j

\* The first position from `from` on that holds tok.
IndexOf(text, tok, from) == First({i \in from..Len(text) : text[i] = tok})

\* The first position from `from` on that does not hold white space; one
\* past the end when there is none.
SkipSpace(text, from) ==
  LET i == First({i \in from..Len(text) : text[i] # SPACE})
  IN IF i = 0 THEN Len(text) + 1 ELSE i

\* String.prototype.trim()
RECURSIVE Trim(_)
Trim(str) ==
  IF str # <<>> /\ Head(str) = SPACE THEN Trim(Tail(str))
  ELSE IF str # <<>> /\ str[Len(str)] = SPACE THEN Trim(SubSeq(str, 1, Len(str) - 1))
  ELSE str

NoMatch == [found |-> FALSE]

\* /@[^{]+\{([^,]+),([^@]*)/ tried at position i: '@', one character or more
\* up to the first '{', one character or more up to the first ',', then all
\* up to the next '@' or the end.
EntryMatchAt(text, i) ==
  LET brace == IndexOf(text, LBRACE, i + 1)
      comma == IndexOf(text, COMMA, brace + 1)
      at == IndexOf(text, AT, comma + 1)
      end == IF at = 0 THEN Len(text) + 1 ELSE at
  IN IF text[i] = AT /\ brace >= i + 2 /\ comma >= brace + 2
     THEN [found |-> TRUE, key |-> SubSeq(text, brace + 1, comma - 1),
           body |-> SubSeq(text, comma + 1, end - 1), lastIndex |-> end]
     ELSE NoMatch

\* entryRegex.exec(bibContent) with lastIndex = from: the match at the first
\* position that has one.
EntryExec(text, from) ==
  LET i == First({i \in from..Len(text) : EntryMatchAt(text, i).found})
  IN IF i = 0 THEN NoMatch ELSE EntryMatchAt(text, i)

\* /([a-zA-Z]+)\s*=\s*(?:\{([^}]*)\}|"([^"]*)")/ tried at position i.
FieldMatchAt(body, i) ==
  LET eq == SkipSpace(body, i + 1)
      open == SkipSpace(body, eq + 1)
      closer == IF open <= Len(body) /\ body[open] = LBRACE THEN RBRACE ELSE QUOTE
      close == IndexOf(body, closer, open + 1)
  IN IF /\ body[i] \in Letters
        /\ eq <= Len(body) /\ body[eq] = EQUALS
        /\ open <= Len(body) /\ body[open] \in {LBRACE, QUOTE}
        /\ close # 0
     THEN [found |-> TRUE, field |-> body[i],
           value |-> SubSeq(body, open + 1, close - 1), lastIndex |-> close + 1]
     ELSE NoMatch

\* fieldRegex.exec(body) with lastIndex = from.
FieldExec(body, from) ==
  LET i == First({i \in from..Len(body) : FieldMatchAt(body, i).found})
  IN IF i = 0 THEN NoMatch ELSE FieldMatchAt(body, i)

\* The inner loop: metadata[field] = value || '' for each field matched.
RECURSIVE ParseFields(_, _, _)
ParseFields(body, from, metadata) ==
  LET fieldMatch == FieldExec(body, from) IN
  IF ~fieldMatch.found THEN metadata
  ELSE ParseFields(body, fieldMatch.lastIndex,
                   Assign(metadata, ToLowerCase(fieldMatch.field), fieldMatch.value))

\* An entry that starts from the fields the map holds for its key.
Metadata_KeepsEarlier(map, citekey) ==
  IF citekey \in DOMAIN map THEN map[citekey] ELSE <<>>

\* const metadata = {}: the object the fields of one entry are put in.
NewMetadata(map, citekey) == <<>>

\* The outer loop: map[citekey] = metadata for each entry matched.
RECURSIVE ParseEntries(_, _, _)
ParseEntries(bibContent, from, map) ==
  LET entryMatch == EntryExec(bibContent, from) IN
  IF ~entryMatch.found THEN map
  ELSE LET citekey == Trim(entryMatch.key) IN
       ParseEntries(bibContent, entryMatch.lastIndex,
                    Assign(map, citekey,
                           ParseFields(entryMatch.body, 1, NewMetadata(map, citekey))))

parseBibToMetadataMap(bibContent) == ParseEntries(bibContent, 1, <<>>)

\* One field as it is written in an entry: name = {value} or name = "value".
FieldText(f) ==
  <<SPACE, f.name, EQUALS, IF f.quoted THEN QUOTE ELSE LBRACE>> \o f.value
    \o <<IF f.quoted THEN QUOTE ELSE RBRACE, COMMA>>

RECURSIVE FieldsText(_)
FieldsText(fields) ==
  IF fields = <<>> THEN <<>> ELSE FieldText(Head(fields)) \o FieldsText(Tail(fields))

\* A well-formed entry: @article{key, name = {value}, ... }
EntryText(key, fields) ==
  <<AT, "article", LBRACE, key, COMMA>> \o FieldsText(fields) \o <<SPACE, RBRACE>>

\* The fields the entries are written with.
FieldChoices ==
  {[name |-> "title", quoted |-> FALSE, value |-> <<"Old">>],
   [name |-> "Title", quoted |-> TRUE, value |-> <<"New">>],
   [name |-> "year", quoted |-> FALSE, value |-> <<>>]}

BibKeys == {"ka", "kb"}

\* The entries with at most n fields.
BibEntries(n) ==
  {[key |-> k, fields |-> fs] :
     k \in BibKeys, fs \in UNION {[1..m -> FieldChoices] : m \in 0..n}}

\* The bibliography texts: a well-formed entry, then nothing, or a second
\* entry whole or cut short after any of its tokens.
BibInputs ==
  {[first |-> e1, second |-> e2, cut |-> n] :
     e1 \in BibEntries(1), e2 \in BibEntries(MaxBibFields),
     n \in 0..(5 + 7 * MaxBibFields + 2)}

BibText(in) ==
  LET second == EntryText(in.second.key, in.second.fields)
  IN EntryText(in.first.key, in.first.fields)
       \o (IF in.cut = 0 THEN <<>> ELSE <<SPACE>> \o SubSeq(second, 1, in.cut))

\* parseBibToMetadataMap(bibContent) is called.
ParseCalled ==
  call \in {[fn |-> "parseBibToMetadataMap", pc |-> "called",
             bibContent |-> BibText(in), first |-> in.first,
             second |-> in.second, cut |-> in.cut,
             result |-> <<>>] :
              in \in {i \in BibInputs :
                        i.cut <= Len(EntryText(i.second.key, i.second.fields))}}

\* parseBibToMetadataMap returns.
ParseReturns ==
  /\ call.fn = "parseBibToMetadataMap"
  /\ call.pc = "called"
  /\ call' = [call EXCEPT !.pc = "returned",
                          !.result = parseBibToMetadataMap(call.bibContent)]
  /\ UNCHANGED <<engineVars, debounceVars>>

InitParse == AtRest /\ ParseCalled

NextParse == ParseReturns

SpecParse == InitParse /\ [][NextParse]_vars

\* Values that hold the characters the regular expressions give a meaning
\* to, each without its own closing delimiter: braced values may hold a
\* quote, quoted values a closing brace.
BracedValues ==
  {<<"Old">>, <<"Old", AT, "New">>, <<"Old", COMMA, SPACE, "New">>,
   <<"Old", EQUALS, "New">>, <<QUOTE, "Old", QUOTE>>}
QuotedValues ==
  {<<"Old">>, <<"Old", AT, "New">>, <<"Old", RBRACE>>, <<LBRACE, "Old", RBRACE>>}

\* The fields an entry is written with, over those values.
ValueChoices ==
  {[name |-> "Title", quoted |-> FALSE, value |-> v] : v \in BracedValues}
    \cup {[name |-> "year", quoted |-> TRUE, value |-> v] : v \in QuotedValues}

\* parseBibToMetadataMap(bibContent) is called on one well-formed entry whose
\* values hold such characters.
ParseValuesCalled ==
  call \in {[fn |-> "parseBibToMetadataMap", pc |-> "called",
             bibContent |-> EntryText(k, fs),
             first |-> [key |-> k, fields |-> fs],
             second |-> [key |-> k, fields |-> <<>>], cut |-> 0,
             result |-> <<>>] :
              k \in BibKeys, fs \in UNION {[1..m -> ValueChoices] : m \in 0..MaxBibFields}}

InitParseValues == AtRest /\ ParseValuesCalled

SpecParseValues == InitParseValues /\ [][NextParse]_vars

\* ------------------------------------------- annotationCache: detectChanges

\* The most annotation records the collaborator returns for one key.
MaxAnnotations == 2

\* Annotation ids in localeCompare order, and annotation texts.
AnnotationIdOrder == <<"k1", "k2">>
AnnotationIds == Range(AnnotationIdOrder)
AnnotationTexts == {"x", "y"}

\* An annotation record of the collaborator carries its id as key or as id
\* ({id|key, ...}): the first id is drawn as a key, the others as an id.
RawAnnotations ==
  {[key |-> IF k = AnnotationIdOrder[1] THEN k ELSE Undefined,
    id |-> IF k = AnnotationIdOrder[1] THEN Undefined ELSE k,
    annotationText |-> t] : k \in AnnotationIds, t \in AnnotationTexts}

\* annotation.key || annotation.id
IdOf(annotation) ==
  IF Truthy(annotation.key) THEN annotation.key ELSE annotation.id

\* hashAnnotation(annotation): the digest of the id and the content (type,
\* page label and colour are the same for every record drawn); two records
\* have the same digest exactly when these are the same.
hashAnnotation(annotation) == <<IdOf(annotation), annotation.annotationText>>

\* One iteration of createAnnotationSnapshots: the snapshot of a record.
Snapshot(annotation) ==
  [id |-> IdOf(annotation), content |-> annotation.annotationText,
   contentHash |-> hashAnnotation(annotation)]

\* createAnnotationSnapshots(attachmentData): the snapshots of the
\* annotations of every attachment that has any, in order.
RECURSIVE createAnnotationSnapshots(_)
createAnnotationSnapshots(attachmentData) ==
  IF attachmentData = <<>> THEN <<>>
  ELSE LET attachment == Head(attachmentData)
       IN (IF attachment.hasAnnotations
           THEN [i \in 1..Len(attachment.annotations) |->
                   Snapshot(attachment.annotations[i])]
           ELSE <<>>)
          \o createAnnotationSnapshots(Tail(attachmentData))

\* The place of an id in localeCompare order.
IdRank(id) == CHOOSE i \in 1..Len(AnnotationIdOrder) : AnnotationIdOrder[i] = id

\* annotations.sort((a, b) => a.id.localeCompare(b.id)): a stable sort.
RECURSIVE SortById(_, _)
SortById(annotations, rank) ==
  IF rank > Len(AnnotationIdOrder) THEN <<>>
  ELSE LET at == {i \in 1..Len(annotations) : IdRank(annotations[i].id) = rank}
           RECURSIVE Pick(_)
           Pick(i) == IF i > Len(annotations) THEN <<>>
                      ELSE (IF i \in at THEN <<annotations[i]>> ELSE <<>>) \o Pick(i + 1)
       IN Pick(1) \o SortById(annotations, rank + 1)

\* A combined hash over the annotations in the order they came.
hashAllAnnotations_Unsorted(annotations) ==
  [i \in 1..Len(annotations) |-> annotations[i].contentHash]

\* hashAllAnnotations(annotations): the digest of the content hashes joined
\* in the order of the ids.
hashAllAnnotations(annotations) ==
  LET sorted == SortById(annotations, 1)
  IN [i \in 1..Len(sorted) |-> sorted[i].contentHash]

\* createCacheEntry(citekey, attachmentData) with its annotations: sort()
\* orders the array of the entry itself. lastChecked, which detectChanges
\* does not read, is left out.
createCacheEntryFrom(citekey, attachmentData) ==
  LET annotations == createAnnotationSnapshots(attachmentData)
  IN [citekey |-> citekey,
      annotationCount |-> Len(annotations),
      annotations |-> SortById(annotations, 1),
      contentHash |-> hashAllAnnotations(annotations)]

\* new Map(entry.annotations.map(a => [a.id, a])): a later annotation of an
\* id replaces an earlier one.
AnnotationsMap(annotations) ==
  [id \in {annotations[i].id : i \in 1..Len(annotations)} |->
     annotations[CHOOSE i \in 1..Len(annotations) :
                   /\ annotations[i].id = id
                   /\ \A j \in (i + 1)..Len(annotations) : annotations[j].id # id]]

\* A quick check that compares the numbers of annotations.
HashesMatch_ByCount(oldEntry, newEntry) ==
  oldEntry.annotationCount = newEntry.annotationCount

\* oldEntry.contentHash === newEntry.contentHash
HashesMatch(oldEntry, newEntry) == oldEntry.contentHash = newEntry.contentHash

NoChanges ==
  [hasChanges |-> FALSE, newAnnotations |-> <<>>, modifiedAnnotations |-> <<>>,
   deletedAnnotations |-> <<>>]

\* The two loops of detectChanges over the annotations of both entries.
CompareAnnotations(oldEntry, newEntry) ==
  LET oldAnnotationsMap == AnnotationsMap(oldEntry.annotations)
      newAnnotationsMap == AnnotationsMap(newEntry.annotations)
      RECURSIVE Added(_), Modified(_), Deleted(_)
      Added(i) ==
        IF i > Len(newEntry.annotations) THEN <<>>
        ELSE (IF newEntry.annotations[i].id \notin DOMAIN oldAnnotationsMap
              THEN <<newEntry.annotations[i]>> ELSE <<>>) \o Added(i + 1)
      Modified(i) ==
        IF i > Len(newEntry.annotations) THEN <<>>
        ELSE LET a == newEntry.annotations[i]
             IN (IF /\ a.id \in DOMAIN oldAnnotationsMap
                    /\ oldAnnotationsMap[a.id].contentHash # a.contentHash
                 THEN <<a>> ELSE <<>>) \o Modified(i + 1)
      Deleted(i) ==
        IF i > Len(oldEntry.annotations) THEN <<>>
        ELSE (IF oldEntry.annotations[i].id \notin DOMAIN newAnnotationsMap
              THEN <<oldEntry.annotations[i]>> ELSE <<>>) \o Deleted(i + 1)
  IN [hasChanges |-> Len(Added(1)) > 0 \/ Len(Modified(1)) > 0 \/ Len(Deleted(1)) > 0,
      newAnnotations |-> Added(1),
      modifiedAnnotations |-> Modified(1),
      deletedAnnotations |-> Deleted(1)]

\* detectChanges(oldEntry, newEntry); cached tells whether oldEntry is an
\* entry or undefined.
detectChanges(cached, oldEntry, newEntry) ==
  IF ~cached
  THEN [hasChanges |-> Len(newEntry.annotations) > 0,
        newAnnotations |-> newEntry.annotations,
        modifiedAnnotations |-> <<>>, deletedAnnotations |-> <<>>]
  ELSE IF HashesMatch(oldEntry, newEntry) THEN NoChanges
  ELSE CompareAnnotations(oldEntry, newEntry)

\* The attachment data drawn for a key: no attachment, an attachment without
\* annotations, and one attachment with up to MaxAnnotations records.
AttachmentData ==
  {<<>>, <<[hasAnnotations |-> FALSE, annotations |-> <<>>]>>}
  \cup {<<[hasAnnotations |-> TRUE, annotations |-> l]>> :
          l \in UNION {[1..n -> RawAnnotations] : n \in 0..MaxAnnotations}}

\* detectChanges is called on the entry cached for a key, if any, and the
\* entry made of the data the collaborator returns now.
DetectCalled ==
  call \in {[fn |-> "detectChanges", pc |-> "called", cached |-> c,
             oldEntry |-> createCacheEntryFrom("a", o),
             newEntry |-> createCacheEntryFrom("a", n),
             result |-> NoChanges] :
              c \in BOOLEAN, o \in AttachmentData, n \in AttachmentData}

\* detectChanges returns.
DetectReturns ==
  /\ call.fn = "detectChanges"
  /\ call.pc = "called"
  /\ call' = [call EXCEPT !.pc = "returned",
                          !.result = detectChanges(call.cached, call.oldEntry,
                                                   call.newEntry)]
  /\ UNCHANGED <<engineVars, debounceVars>>

InitDetect == AtRest /\ DetectCalled

NextDetect == DetectReturns

SpecDetect == InitDetect /\ [][NextDetect]_vars

\* ------------------------------------------------------------------ claims

Started == 1..Len(passes)

InFlight(p) == passes[p].pc # "done"

\* C1: at any moment at most one watcher-triggered pass is in progress; a
\* trigger that fires while one is suspended at an await starts no second pass.
C1_AtMostOneWatcherPass ==
  Cardinality({p \in Started : passes[p].kind = "watcher" /\ InFlight(p)}) <= 1

\* C2: a burst of file events, each less than the debounce delay after the
\* previous one, triggers one sync pass, and that pass starts one delay after
\* the last event of the burst.
C2_OneTriggerAfterLastEvent ==
  /\ burstStarts <= 1
  /\ lastTrigger.at # NoTimer =>
       lastTrigger.at = lastTrigger.lastEvent + bibFileWatcher.delay

\* C3: a pass run right after a pass whose imports all returned without
\* error, on an unchanged bibliography, calls the external import for no key.
C3_SecondRunImportsNothing ==
  \A e \in importLog : ~e.second

\* C4: a pass that runs its import loop calls the external import for exactly
\* the bibliography keys that are not keys of importedItems, once each, in
\* ascending order.
C4_AttemptsExactlyUnrecordedKeys ==
  \A p \in Started :
    passes[p].outcome = "completed" => passes[p].attempted = passes[p].expected

\* C5: with auto-sync on, a watcher pass that finds a changed entry of a key
\* with a recorded document ends with metadataMap replaced by the snapshot it
\* read.
C5_SnapshotReplacedByWatcherPass ==
  \A p \in Started :
    /\ passes[p].kind = "watcher"
    /\ passes[p].pc = "done"
    /\ passes[p].changed # {}
    /\ settings.autoSyncBibFile
    => settings.metadataMap = passes[p].bibAtRead

\* C6: the external import is never called for a key that has an entry in
\* importedItems at the moment of the call.
C6_NeverImportsRecordedKey ==
  \A e \in importLog : e.recorded = Undefined

\* C7: the settings save that ends a watcher-triggered pass never calls
\* initializeBibFileWatcher.
C7_WatcherSaveNeverReinitialises ==
  \A p \in Started : passes[p].kind = "watcher" => ~passes[p].reinitialised

\* C8: every settings save made by the settings tab has re-initialised the
\* watcher by the time it completes.
C8_UserSaveReinitialises ==
  \A u \in 1..Len(userSaves) :
    userSaves[u].pc = "done" => userSaves[u].reinitialised

\* The fields of new[k] whose value is not the value old[k] has for them.
Differing(oldMap, newMap, k) ==
  {f \in DOMAIN newMap[k] :
     k \notin DOMAIN oldMap \/ f \notin DOMAIN oldMap[k] \/ oldMap[k][f] # newMap[k][f]}

\* C9: diffMetadata(old, new) holds a key k iff k is a key of new and some
\* field of new[k] has a value other than old[k]'s (a missing old[k] or a
\* missing field counts as different); for such a k it holds exactly the
\* differing fields, each with the value of new[k]. A key of old alone and a
\* field of old[k] alone are never reported, and no key maps to an empty map.
C9_DiffHoldsExactlyTheChanges ==
  (call.fn = "diffMetadata" /\ call.pc = "returned") =>
    LET old == call.oldMap
        new == call.newMap
        diffs == call.result
    IN /\ DOMAIN diffs = {k \in DOMAIN new : Differing(old, new, k) # {}}
       /\ \A k \in DOMAIN diffs :
            /\ DOMAIN diffs[k] = Differing(old, new, k)
            /\ DOMAIN diffs[k] # {}
            /\ \A f \in DOMAIN diffs[k] : diffs[k][f] = new[k][f]
       /\ \A k \in DOMAIN old \ DOMAIN new : k \notin DOMAIN diffs

\* C9 witness: a diff has returned, and reports something, for snapshots with
\* a key of old alone and a key of both that has one field changed and one
\* field unchanged.
C9_DiffReturnedForMixedSnapshots ==
  /\ call.fn = "diffMetadata"
  /\ call.pc = "returned"
  /\ DOMAIN call.result # {}
  /\ DOMAIN call.oldMap \ DOMAIN call.newMap # {}
  /\ \E k \in DOMAIN call.newMap \cap DOMAIN call.oldMap :
       \E f, g \in DOMAIN call.newMap[k] \cap DOMAIN call.oldMap[k] :
         /\ call.oldMap[k][f] # call.newMap[k][f]
         /\ call.oldMap[k][g] = call.newMap[k][g]

\* C10: the document patchFrontmatterContent(text, fields) returns has a
\* metadata block that maps every key of fields to its value in fields and
\* every other key of the input's block to its previous value, holds no other
\* key, and has the body of the input.
C10_PatchSetsFieldsAndKeepsBody ==
  (call.fn = "patchFrontmatterContent" /\ call.pc = "returned"
     /\ ~call.result.throws) =>
    LET before == matter(call.fileContent)
        after == matter(call.result.text)
        fields == call.updatedFields
    IN /\ ~after.throws
       /\ AsMap(after.data) =
            [k \in Keys(before.data) \cup Keys(fields) |->
               IF k \in Keys(fields) THEN ValueOf(fields, k)
               ELSE ValueOf(before.data, k)]
       /\ after.content = before.content

\* C11: when the parsed snapshot is the snapshot held (two passes in
\* succession with no change of the bibliography between them) the delta is
\* empty, so nothing is to be written: diffMetadata(s, s) is the empty map.
C11_DiffOfEqualSnapshotsIsEmpty ==
  (call.fn = "diffMetadata" /\ call.pc = "returned" /\ call.oldMap = call.newMap) =>
    DOMAIN call.result = {}

\* C11 witness: a diff has returned for a snapshot compared with itself, the
\* snapshot holding two keys with fields.
C11_DiffReturnedForEqualSnapshots ==
  /\ call.fn = "diffMetadata"
  /\ call.pc = "returned"
  /\ call.oldMap = call.newMap
  /\ DOMAIN call.newMap = CiteKeys
  /\ \A k \in CiteKeys : DOMAIN call.newMap[k] = DiffFields

\* C12: for a bibliography text made of one well-formed entry followed by a
\* truncated or malformed entry (no closing delimiter, or an unterminated
\* field), parseBibToMetadataMap returns a map whose only key is the key of
\* the well-formed entry.
C12_TruncatedEntryIsSkipped ==
  (/\ call.fn = "parseBibToMetadataMap"
   /\ call.pc = "returned"
   /\ call.cut > 0
   /\ call.cut < Len(EntryText(call.second.key, call.second.fields))) =>
    DOMAIN call.result = {<<call.first.key>>}

\* C13: when the external import of a key throws, the key is not added to
\* importedItems, the error is reported for that key, and the next key of
\* newKeys is still attempted; a key whose import returned is recorded with
\* the first path produced, or with the empty string when none was produced.
C13_ThrowSkipsOnlyThatKey ==
  [][\A p \in 1..Len(passes) :
       (passes[p].pc = "import" /\ passes'[p] # passes[p]) =>
         LET citekey == Head(passes[p].newKeys)
             rest == Tail(passes[p].newKeys)
             threw == passes'[p].errors # passes[p].errors
             produced == passes'[p].createdPaths # passes[p].createdPaths
         IN /\ threw =>
                 /\ passes'[p].errors = Append(passes[p].errors, citekey)
                 /\ settings'.importedItems = settings.importedItems
            /\ ~threw =>
                 settings'.importedItems =
                   Assign(settings.importedItems, citekey,
                          IF produced THEN PathOf[citekey] ELSE EmptyStr)
            /\ rest # <<>> =>
                 /\ passes'[p].pc = "import"
                 /\ passes'[p].attempted = Append(passes[p].attempted, Head(rest))
                 /\ \E e \in importLog' : e.key = Head(rest)
    ]_vars

\* C13 witness: a pass has completed in which the import of the first key
\* threw and the second key was imported and recorded.
C13_PassCompletedAfterAThrow ==
  \E p \in Started :
    /\ passes[p].outcome = "completed"
    /\ passes[p].attempted = <<"a", "b">>
    /\ passes[p].errors = <<"a">>
    /\ "a" \notin DOMAIN settings.importedItems
    /\ Lookup(settings.importedItems, "b") = PathOf["b"]

\* C14 as stated: a pass that found a new key saves the settings exactly
\* once, after the last key of newKeys, and never between two keys.
C14_PassWithNewKeySavesOnce ==
  \A p \in Started :
    /\ passes[p].pc \in {"pick", "import"} => passes[p].saves = 0
    /\ (passes[p].pc = "done"
          /\ passes[p].outcome \in {"completed", "cancelled", "noFormat"}) =>
         passes[p].saves = 1

\* C14 amended: a pass that enters its import loop (a new key, a format
\* configured and, with several formats, one picked) calls saveSettings()
\* exactly once, after the last key of newKeys has been processed and never
\* between two keys; a pass that ends before its loop calls it never.
C14_PassThatImportsSavesOnce ==
  \A p \in Started :
    /\ passes[p].saves <= 1
    /\ passes[p].pc \in {"pick", "import"} => passes[p].saves = 0
    /\ passes[p].pc = "save" => passes[p].saves = 1 /\ passes[p].newKeys = <<>>
    /\ passes[p].pc = "done" =>
         passes[p].saves = (IF passes[p].outcome = "completed" THEN 1 ELSE 0)
    /\ passes[p].saves = 1 =>
         /\ passes[p].attempted # <<>>
         /\ \A k \in Range(passes[p].attempted) :
              k \in DOMAIN settings.importedItems \/ k \in Range(passes[p].errors)

\* C14 witness: a pass of two keys, the first imported and the second
\* failing, has completed.
C14_PassOfTwoKeysCompleted ==
  \E p \in Started :
    /\ passes[p].outcome = "completed"
    /\ passes[p].attempted = <<"a", "b">>
    /\ passes[p].errors = <<"b">>
    /\ passes[p].saves = 1

C16_ReadFailureEndsThePass ==
  [][Len(passes') > Len(passes) =>
       LET p == Len(passes') IN
       passes'[p].readFailed =>
         /\ passes'[p].pc = "done"
         /\ passes'[p].outcome = "readError"
         /\ passes'[p].attempted = <<>>
         /\ passes'[p].saves = 0
         /\ \A q \in 1..Len(passes) : passes'[q] = passes[q]
         /\ UNCHANGED <<settings, importLog, bibFileWatcher, isUpdatingFromFileWatcher>>
    ]_vars

\* C16 witness: a watcher pass failed to read the file and a later watcher
\* pass read it and completed.
C16_PassCompletedAfterReadFailure ==
  \E p, q \in Started :
    /\ p < q
    /\ passes[p].kind = "watcher" /\ passes[p].outcome = "readError"
    /\ passes[q].kind = "watcher" /\ passes[q].outcome = "completed"
    /\ bibFileWatcher.attached

\* C17: a pass that ends on a configuration error (the bibliography path is
\* unset, or no import format is configured) has done no I/O before: it has
\* not read the bibliography file.
C17_ConfigurationErrorBeforeAnyRead ==
  \A p \in Started :
    passes[p].outcome \in {"noPath", "noFormat"} => ~passes[p].fileRead

\* C18: in every reachable state at most one filesystem observer is open,
\* and it is the one held in bibFileWatcher: every initializeBibFileWatcher()
\* closes the observer held before it attaches another, whether it runs from
\* a settings save, from the save of a pass or from a re-attach timer.
C18_AtMostOneObserver ==
  /\ observers <= 1
  /\ (observers = 1) = bibFileWatcher.attached

\* C18 witness: a settings save has initialised the watcher again while the
\* observer of the load was held and the trigger of one of its events was
\* pending; one observer is held afterwards.
C18_SavedAgainWithOneObserver ==
  /\ orphanTimers > 0
  /\ \E u \in 1..Len(userSaves) : userSaves[u].pc = "done" /\ userSaves[u].reinitialised
  /\ bibFileWatcher.attached
  /\ observers = 1

C20_WatcherErrorLeavesUnwatched ==
  /\ bibFileWatcher.attached => ~bibFileWatcher.errored
  /\ ~uncaught

\* C25: for field maps A and B without a common key, patching with A and
\* then with B gives the document that one patch with A merged with B gives,
\* and the body after the metadata block is the same in the input, in the
\* result of the two patches and in the result of the one patch.
C25_DisjointPatchesCompose ==
  (call.fn = "patchTwice" /\ call.pc = "returned" /\ ~call.merged.throws) =>
    /\ call.second = call.merged
    /\ matter(call.second.text).content = matter(call.fileContent).content
    /\ matter(call.merged.text).content = matter(call.fileContent).content

\* C26: for a document whose leading metadata block cannot be read as
\* key/value data, patchFrontmatterContent raises no error: the document it
\* returns has a block that holds exactly the applied fields and a body that
\* is the whole of the original text.
C26_MalformedBlockIsWrapped ==
  (/\ call.fn = "patchFrontmatterContent"
   /\ call.pc = "returned"
   /\ matter(call.fileContent).throws) =>
    /\ ~call.result.throws
    /\ LET after == matter(call.result.text)
       IN /\ ~after.throws
          /\ AsMap(after.data) = AsMap(call.updatedFields)
          /\ after.content = call.fileContent

\* The field map an entry written with these fields stands for: each name
\* lower-cased, with the value of its last occurrence.
RECURSIVE FieldMapOf(_, _)
FieldMapOf(fields, metadata) ==
  IF fields = <<>> THEN metadata
  ELSE FieldMapOf(Tail(fields),
                  Assign(metadata, ToLowerCase(Head(fields).name), Head(fields).value))

\* C27: when a text holds two entries with the same citation key,
\* parseBibToMetadataMap maps the key to the fields of the second entry
\* only: no field of the first is carried over.
C27_LastDuplicateWins ==
  (/\ call.fn = "parseBibToMetadataMap"
   /\ call.pc = "returned"
   /\ call.cut = Len(EntryText(call.second.key, call.second.fields))
   /\ call.first.key = call.second.key) =>
    /\ DOMAIN call.result = {<<call.second.key>>}
    /\ call.result[<<call.second.key>>] = FieldMapOf(call.second.fields, <<>>)

\* C27 witness: the parse has returned for a text whose first entry has a
\* title and whose second entry has the same key and a year only.
C27_ParsedDuplicateWithOtherFields ==
  /\ call.fn = "parseBibToMetadataMap"
  /\ call.pc = "returned"
  /\ call.cut = Len(EntryText(call.second.key, call.second.fields))
  /\ call.first.key = call.second.key
  /\ Len(call.first.fields) = 1 /\ call.first.fields[1].name = "title"
  /\ Len(call.second.fields) = 1 /\ call.second.fields[1].name = "year"

\* C28: for a text of one entry, parseBibToMetadataMap yields the one key of
\* its marker, and the key's field map holds every field written between the
\* marker and the end of input, the name lower-cased and the value as it is
\* written, whatever characters other than its closing delimiter it holds.
C28_EveryFieldWithItsLiteralValue ==
  (/\ call.fn = "parseBibToMetadataMap"
   /\ call.pc = "returned"
   /\ call.cut = 0) =>
    /\ DOMAIN call.result = {<<call.first.key>>}
    /\ call.result[<<call.first.key>>] = FieldMapOf(call.first.fields, <<>>)

\* C29: importedItems only grows: no step of any interleaving of import
\* passes removes a key from it, and a key recorded with a non-empty document
\* path keeps that path in every later state.
C29_ImportRecordIsAppendOnly ==
  [][\A k \in DOMAIN settings.importedItems :
       /\ k \in DOMAIN settings'.importedItems
       /\ Truthy(settings.importedItems[k]) =>
            settings'.importedItems[k] = settings.importedItems[k]]_vars

\* C30: a startup import exists only when autorunOnStartup was set at load,
\* its timer fired no earlier than 5 s after load, and the Zotero
\* availability check made then succeeded; when the check says Zotero is not
\* running, the callback starts no import and leaves importedItems and the
\* rest of the settings as they are, with no save.
C30_AutorunOnlyWhenSetDueAndAvailable ==
  /\ [](\A p \in 1..Len(passes) :
          passes[p].kind = "autorun" =>
            /\ settings.autorunOnStartup
            /\ autorun.pc = "done"
            /\ autorun.running
            /\ autorun.firedAt >= AutorunDelay)
  /\ [][(autorun.pc = "checking" /\ autorun'.pc = "done" /\ ~autorun'.running) =>
          UNCHANGED <<settings, passes, importLog>>]_vars

\* C30 witness: the startup import has run to completion and recorded a key.
C30_StartupImportCompleted ==
  \E p \in 1..Len(passes) :
    /\ passes[p].kind = "autorun"
    /\ passes[p].outcome = "completed"
    /\ Truthy(Lookup(settings.importedItems, "a"))

\* The annotation check passes that have started and not ended.
ChecksInProgress == {c \in 1..Len(checks) : checks[c].pc \in {"update", "batch", "pause", "save"}}

\* C21: at most one annotation check pass is in progress at any time: a
\* call of checkForAnnotationChanges made by the interval timer or by the
\* command while isMonitoringAnnotations is set returns at once; it calls the
\* collaborator for no key, leaves annotationCache, lastAnnotationCheck and
\* the rest of the settings as they are, calls no save and leaves the pass
\* in progress as it is.
C21_SecondCheckIsANoOp ==
  /\ [](Cardinality(ChecksInProgress) <= 1)
  /\ [][(Len(checks') > Len(checks) /\ isMonitoringAnnotations) =>
          /\ checks'[Len(checks')].pc = "skipped"
          /\ checks'[Len(checks')].checked = <<>>
          /\ \A q \in 1..Len(checks) : checks'[q] = checks[q]
          /\ UNCHANGED <<annotationCache, lastAnnotationCheck, settings,
                         isMonitoringAnnotations>>]_vars

\* C21 witness: a tick of the interval timer was skipped while a pass that
\* has checked a key already is still in progress.
C21_TickSkippedDuringAPass ==
  \E c, d \in 1..Len(checks) :
    /\ checks[c].pc = "update" /\ Len(checks[c].checked) >= 2
    /\ checks[d].pc = "skipped" /\ checks[d].source = "interval"
    /\ isMonitoringAnnotations

\* C22: every annotation check pass that starts completes in the end and
\* leaves isMonitoringAnnotations lowered, for every number of imported keys
\* and every configured maxItemsPerBatch, when every collaborator call, pause
\* and settings save of the pass comes back.
C22_EveryCheckCompletes ==
  \A c \in 1..MaxChecks :
    (c \in ChecksInProgress) ~>
      (c <= Len(checks) /\ checks[c].pc = "done" /\ ~isMonitoringAnnotations)

\* The batches of a pass one after the other.
RECURSIVE Flatten(_)
Flatten(seqs) == IF seqs = <<>> THEN <<>> ELSE Head(seqs) \o Flatten(Tail(seqs))

\* The keys a pass has checked are the first of its importedCitekeys, in
\* order and each once, in batches of at most maxBatch keys, with one pause
\* before every batch but the first and none after the last.
BatchedInOrder(rec) ==
  LET keys == rec.importedCitekeys
      inBatches == Flatten(rec.batches)
  IN /\ rec.checked = SubSeq(keys, 1, Len(rec.checked))
     /\ inBatches = SubSeq(keys, 1, Len(inBatches))
     /\ Len(rec.checked) = Len(inBatches) - (IF rec.pc = "update" THEN Len(rec.batch) - 1 ELSE 0)
     /\ \A b \in 1..Len(rec.batches) :
          Len(rec.batches[b]) >= 1 /\ Len(rec.batches[b]) <= rec.maxBatch
     /\ rec.pc = "update" => rec.pauses = Len(rec.batches) - 1
     /\ rec.pc \in {"save", "done"} =>
          /\ rec.checked = keys
          /\ rec.pauses = IF rec.batches = <<>> THEN 0 ELSE Len(rec.batches) - 1

\* C23: an annotation check pass checks each key of importedItems exactly
\* once, in order, in consecutive batches of at most maxItemsPerBatch keys,
\* with one pause between every two consecutive batches and none after the
\* last: what a pass has checked is batched in order at every moment, and a
\* pass that has left its loop has checked every key.
C23_EveryKeyOnceInBatches ==
  \A c \in 1..Len(checks) : checks[c].pc # "skipped" => BatchedInOrder(checks[c])

\* C23 witness: a pass over three keys with maxItemsPerBatch = 2 has ended
\* after a batch of two keys, one pause and a batch of one key.
C23_PassOfTwoBatchesEnded ==
  \E c \in 1..Len(checks) :
    /\ checks[c].pc = "done"
    /\ checks[c].maxBatch = 2
    /\ Len(checks[c].batches) = 2
    /\ Len(checks[c].batches[1]) = 2 /\ Len(checks[c].batches[2]) = 1
    /\ checks[c].pauses = 1

\* C24: when the collaborator returns no attachment data, or fails, for a
\* key, annotationCache is left as it is, no change is reported for the key,
\* and the pass goes on: the next key of the batch is checked, or the batch
\* ends with the pause before the next one, or, every key having been
\* checked, the pass leaves its loop.
C24_UnansweredKeyIsSkipped ==
  [][\A c \in 1..Len(checks) :
       Len(checks'[c].unanswered) > Len(checks[c].unanswered) =>
         LET citekey == Head(checks[c].batch) IN
         /\ annotationCache' = annotationCache
         /\ checks'[c].reported = checks[c].reported
         /\ checks'[c].unanswered = Append(checks[c].unanswered, citekey)
         /\ \/ /\ checks'[c].pc = "update"
               /\ Len(checks'[c].checked) = Len(checks[c].checked) + 1
            \/ /\ checks'[c].pc = "pause"
               /\ Len(checks'[c].checked) < Len(checks'[c].importedCitekeys)
            \/ /\ checks'[c].pc = "save"
               /\ checks'[c].checked = checks'[c].importedCitekeys]_vars

\* C24 witness: a pass over three keys has ended; the collaborator had no
\* answer for its first key, whose cache entry is still absent, and the two
\* keys after it were checked and cached.
C24_PassEndedAfterUnansweredKey ==
  \E c \in 1..Len(checks) :
    /\ checks[c].pc = "done"
    /\ Len(checks[c].importedCitekeys) = 3
    /\ checks[c].unanswered = <<checks[c].importedCitekeys[1]>>
    /\ DOMAIN annotationCache = {checks[c].importedCitekeys[2],
                                 checks[c].importedCitekeys[3]}

\* The debounce delay the configuration asks for: bibWatchDebounce, and 500 ms
\* when it is absent.
ConfiguredWindow ==
  IF "bibWatchDebounce" \in DOMAIN settings
  THEN settings.bibWatchDebounce ELSE DefaultDebounce

\* C31: the debounce window the watcher uses is the configured
\* bibWatchDebounce for every configured integer >= 0, and 500 ms when the
\* setting is absent: the observer is created with that delay, and an event
\* that finds no timer set sets one to fire that long after it.
C31_WindowIsTheConfiguredDelay ==
  /\ [](bibFileWatcher.attached => bibFileWatcher.delay = ConfiguredWindow)
  /\ [][TimedWatchEvent /\ debounceDue = NoTimer
          => debounceDue' = clock + ConfiguredWindow]_vars

\* C32: an observer attached to the containing directory schedules a sync
\* trigger only for 'change'/'rename' events whose filename is the base name
\* of the bibliography file; an event of any other file of the directory
\* schedules neither a trigger nor a re-attach.
C32_DirectoryObserverFiltersByName ==
  /\ [][\A t \in EventTypes, f \in Filenames :
          DirectoryWatchEvent(t, f) /\ f # BibBase
            => UNCHANGED <<handlerPending, reattachTimers>>]_vars
  /\ [][bibFileWatcher.directory /\ bibFileWatcher'.directory
          /\ ((~handlerPending /\ handlerPending') \/ reattachTimers' > reattachTimers)
            => \E t \in EventTypes : DirectoryWatchEvent(t, BibBase)]_vars

\* C32 (witness): the observer is on the directory, the last event it
\* delivered was of another file, and no trigger or re-attach is scheduled.
C32_OtherFileEventDropped ==
  /\ bibFileWatcher.attached
  /\ bibFileWatcher.directory
  /\ delivered.filename = OtherFile
  /\ ~handlerPending
  /\ reattachTimers = 0

\* C33: after onunload has run, no filesystem observer and no annotation
\* interval timer exists in any later state: neither a pending re-attach
\* timer, nor the settings save of a pass in flight, nor the autorun timer
\* re-creates one.
C33_NothingWatchesAfterUnload ==
  unloaded => /\ ~bibFileWatcher.attached
              /\ observers = 0
              /\ ~annotationMonitorInterval
              /\ intervalTimers = 0

\* C34: re-initialising the watcher supersedes the debouncer of the previous
\* observer: a trigger pending in the handler of the torn-down observer never
\* starts a pass (so events on both sides of a re-initialisation start at
\* most one pass).
C34_ReinitialisationSupersedesTheDebouncer ==
  [][~(orphanTimers' < orphanTimers /\ Len(passes') > Len(passes))]_vars

\* detectChanges has returned.
Detected == call.fn = "detectChanges" /\ call.pc = "returned"

\* The annotation ids of an entry, and whether each occurs once.
IdsOf(entry) == {entry.annotations[i].id : i \in 1..Len(entry.annotations)}
UniqueIds(entry) == Cardinality(IdsOf(entry)) = Len(entry.annotations)

\* The content hash an entry holds for an id.
HashOf(entry, id) ==
  (CHOOSE a \in Range(entry.annotations) : a.id = id).contentHash

\* C35: for a cached entry old and a fresh entry new with unique annotation
\* ids, detectChanges reports as new the annotations of new whose id is not
\* in old, as modified those whose id is in old with another contentHash, as
\* deleted the annotations of old whose id is not in new, and hasChanges iff
\* one of the three is non-empty; with no cached entry it reports every
\* annotation of new as new, and hasChanges iff new has an annotation.
C35_DetectChangesReportsTheDifference ==
  Detected /\ UniqueIds(call.oldEntry) /\ UniqueIds(call.newEntry) =>
    LET old == call.oldEntry
        new == call.newEntry
        r == call.result
    IN IF call.cached
       THEN /\ Range(r.newAnnotations) =
                 {a \in Range(new.annotations) : a.id \notin IdsOf(old)}
            /\ Range(r.modifiedAnnotations) =
                 {a \in Range(new.annotations) :
                    a.id \in IdsOf(old) /\ HashOf(old, a.id) # a.contentHash}
            /\ Range(r.deletedAnnotations) =
                 {a \in Range(old.annotations) : a.id \notin IdsOf(new)}
            /\ Len(r.newAnnotations) = Cardinality(Range(r.newAnnotations))
            /\ Len(r.modifiedAnnotations) = Cardinality(Range(r.modifiedAnnotations))
            /\ Len(r.deletedAnnotations) = Cardinality(Range(r.deletedAnnotations))
            /\ r.hasChanges <=> (\/ r.newAnnotations # <<>>
                                  \/ r.modifiedAnnotations # <<>>
                                  \/ r.deletedAnnotations # <<>>)
       ELSE /\ r.newAnnotations = new.annotations
            /\ r.modifiedAnnotations = <<>>
            /\ r.deletedAnnotations = <<>>
            /\ r.hasChanges <=> (Len(new.annotations) > 0)

\* C35 (witness): detectChanges has returned for a cached entry and a fresh
\* one with unique ids, and has reported one new and one modified annotation.
C35_ReportedNewAndModified ==
  /\ Detected
  /\ call.cached
  /\ UniqueIds(call.oldEntry)
  /\ UniqueIds(call.newEntry)
  /\ Len(call.result.newAnnotations) = 1
  /\ Len(call.result.modifiedAnnotations) = 1

\* The annotation ids of an entry, each with the content hashes it has.
IdHashes(entry) ==
  {<<entry.annotations[i].id, entry.annotations[i].contentHash>> :
     i \in 1..Len(entry.annotations)}

\* C36 (as stated): the combined hashes of old and new are equal iff old and
\* new hold the same set of annotation ids with the same per-annotation
\* contentHash.
C36_HashesEqualIffSameAnnotations ==
  call.fn = "detectChanges" =>
    (HashesMatch(call.oldEntry, call.newEntry)
       <=> IdHashes(call.oldEntry) = IdHashes(call.newEntry))

\* C36 (amended): for entries whose annotation ids are unique the combined
\* hashes are equal iff old and new hold the same ids with the same
\* contentHash, and what detectChanges returns is what the per-annotation
\* comparison finds; for all entries equal combined hashes mean the same
\* ids with the same contentHash: the shortcut hides no added, modified or
\* deleted annotation.
C36_ShortcutAgreesWithComparison ==
  call.fn = "detectChanges" /\ call.cached =>
    /\ UniqueIds(call.oldEntry) /\ UniqueIds(call.newEntry)
         => /\ HashesMatch(call.oldEntry, call.newEntry)
                 <=> IdHashes(call.oldEntry) = IdHashes(call.newEntry)
            /\ Detected
                 => call.result = CompareAnnotations(call.oldEntry, call.newEntry)
    /\ HashesMatch(call.oldEntry, call.newEntry)
         => IdHashes(call.oldEntry) = IdHashes(call.newEntry)

\* C36 (witness): detectChanges has taken the shortcut for two entries of
\* two annotations each, with unique ids.
C36_ShortcutTaken ==
  /\ Detected
  /\ call.cached
  /\ UniqueIds(call.oldEntry)
  /\ Len(call.oldEntry.annotations) = 2
  /\ Len(call.newEntry.annotations) = 2
  /\ HashesMatch(call.oldEntry, call.newEntry)
  /\ call.result = NoChanges

\* A step in which initializeBibFileWatcher() runs: a re-attach timer fires,
\* or a settings save made while isUpdatingFromFileWatcher is down completes.
Reinitialises ==
  \/ ReattachTimeout
  \/ /\ ~isUpdatingFromFileWatcher
     /\ \/ \E p \in 1..MaxPasses : PassSaveResolved(p)
        \/ \E u \in 1..MaxUserSaves : UserSaveResolved(u)

\* C37: when initializeBibFileWatcher() returns, an observer is attached only
\* if autoSyncBibFile was on and betterBibFilePath non-empty at the call;
\* with auto-sync off or the path empty the observer held before is closed
\* and none is attached, and while none is attached no file event is
\* delivered and no trigger of the current handler is pending.
C37_ObserverOnlyWhenAutoSyncAndPath ==
  /\ [][Reinitialises =>
          IF settings.autoSyncBibFile /\ settings.betterBibFilePath # EmptyStr
          THEN /\ bibFileWatcher'.attached
               /\ bibFileWatcher'.path = settings.betterBibFilePath
          ELSE /\ bibFileWatcher' = NoWatcher
               /\ observers' = 0]_vars
  /\ [](~bibFileWatcher.attached =>
          /\ ~handlerPending
          /\ ~ENABLED (\E t \in EventTypes : WatchEvent(t)))

\* C37 (witness): the settings tab has switched auto-sync off, the save has
\* re-initialised the watcher, and no observer is left.
C37_SwitchedOffAndClosed ==
  /\ ~settings.autoSyncBibFile
  /\ Len(userSaves) = 1
  /\ userSaves[1].reinitialised
  /\ ~bibFileWatcher.attached
  /\ observers = 0

\* The delta merged field by field into a snapshot: every field of the delta
\* replaces or adds that field of the key's entry.
MergeDelta(oldMap, diffs) ==
  [k \in DOMAIN oldMap \cup DOMAIN diffs |->
     IF k \notin DOMAIN diffs THEN oldMap[k]
     ELSE [f \in DOMAIN MetaOf(oldMap, k) \cup DOMAIN diffs[k] |->
             IF f \in DOMAIN diffs[k] THEN diffs[k][f] ELSE oldMap[k][f]]]

\* C38: for all snapshots old and new, merging diffMetadata(old, new) field
\* by field into old gives a snapshot that agrees with new on every field of
\* every key of new, and diffMetadata of the merged snapshot against new is
\* empty.
C38_MergedDeltaReachesNew ==
  call.fn = "diffMetadata" /\ call.pc = "returned" =>
    LET merged == MergeDelta(call.oldMap, call.result)
    IN /\ \A k \in DOMAIN call.newMap : \A f \in DOMAIN call.newMap[k] :
            /\ k \in DOMAIN merged
            /\ f \in DOMAIN merged[k]
            /\ merged[k][f] = call.newMap[k][f]
       /\ diffMetadata(merged, call.newMap) = <<>>

\* C38 (witness): diffMetadata has returned a delta for a key of which one
\* field changed and another did not, and for a key the old snapshot lacks.
C38_DeltaOfChangedAndNewKey ==
  /\ call.fn = "diffMetadata"
  /\ call.pc = "returned"
  /\ \E k \in DOMAIN call.result :
       /\ k \in DOMAIN call.oldMap
       /\ DOMAIN call.result[k] # DOMAIN call.newMap[k]
  /\ \E k \in DOMAIN call.result : k \notin DOMAIN call.oldMap

\* C39: a completed annotation check pass leaves the file watcher untouched:
\* the observer attached before the pass and any trigger pending in its
\* debouncer are the same after the settings save of the pass.
C39_CheckPassLeavesTheWatcherAlone ==
  [][\A c \in 1..MaxChecks :
       CheckSaveReturns(c, TRUE) =>
         UNCHANGED <<bibFileWatcher, observers, handlerPending, orphanTimers>>]_vars

\* A settings save completes: the save of an import pass, of a check pass, or
\* of the settings tab or the toggle command.
SaveCompletes ==
  \/ \E p \in 1..MaxPasses : PassSaveResolved(p)
  \/ \E c \in 1..MaxChecks : CheckSaveReturns(c, TRUE)
  \/ \E u \in 1..MaxUserSaves : UserSaveResolved(u)

\* A pass the watcher triggered is at its settings save.
WatcherPassSaving ==
  \E p \in 1..Len(passes) : passes[p].kind = "watcher" /\ passes[p].pc = "save"

====
